---- MODULE Spec2Model ----
(***************************************************************************)
(* Retrieval-augmented context pipeline of the tayai backend:              *)
(* RAGService (chunking, indexing, deletion, update, retrieval) and the    *)
(* KnowledgeService operations that drive it, over an external vector      *)
(* store whose single calls are atomic and may fail.                       *)
(*                                                                         *)
(* Texts are sequences of one-character strings.  Vector record ids are    *)
(* strings built as the code builds them.                                  *)
(***************************************************************************)
EXTENDS Integers, Sequences, FiniteSets, TLC

\* ------------------------------------------------------------------------
\* Text helpers (Python str.strip, re.split)
\* ------------------------------------------------------------------------

\* Characters str.strip() removes and the regex class \s matches.
IsSpace(c) == c \in {" ", "\n", "\t"}

\* The elements of S in increasing order, given each element's rank.
ByRank(S, rank) == [k \in 1..Cardinality(S) |-> CHOOSE i \in S : rank[i] = k]

\* The elements of a finite set of integers in increasing order.
SortedSeq(S) == ByRank(S, [i \in S |-> Cardinality({j \in S : j <= i})])

\* str.strip()
Strip(s) ==
    LET keep == {i \in 1..Len(s) : ~IsSpace(s[i])}
    IN  IF keep = {} THEN <<>>
        ELSE LET lo == CHOOSE i \in keep : \A j \in keep : i <= j
                 hi == CHOOSE i \in keep : \A j \in keep : j <= i
             IN  SubSeq(s, lo, hi)

\* The maximal non-empty pieces of s that hold no position of `sep`
\* (a set of positions), in order: re.split without its empty pieces.
Pieces(s, sep) ==
    LET n      == Len(s)
        starts == {i \in 1..n : i \notin sep /\ (i = 1 \/ (i - 1) \in sep)}
        ends   == {i \in 1..n : i \notin sep /\ (i = n \/ (i + 1) \in sep)}
        ss     == SortedSeq(starts)
        es     == SortedSeq(ends)
    IN  [k \in 1..Len(ss) |-> SubSeq(s, ss[k], es[k])]

\* Positions matched by r'\n\n+': the runs of two or more newlines.
ParagraphSeps(s) ==
    {i \in 1..Len(s) :
        /\ s[i] = "\n"
        /\ \/ (i > 1 /\ s[i - 1] = "\n")
           \/ (i < Len(s) /\ s[i + 1] = "\n")}

\* Positions matched by r'(?<=[.!?])\s+': the whitespace runs that directly
\* follow a sentence terminator.
SentenceSeps(s) ==
    {i \in 1..Len(s) :
        /\ IsSpace(s[i])
        /\ \E j \in 2..i :
              /\ s[j - 1] \in {".", "!", "?"}
              /\ \A k \in j..i : IsSpace(s[k])}

\* ------------------------------------------------------------------------
\* Chunker (RAGService._chunk_content, _split_by_paragraphs)
\* ------------------------------------------------------------------------

\* One pass of the sentence loop: state st = [chunks, current].
RECURSIVE SentenceLoop(_, _, _, _)
SentenceLoop(sents, k, st, size) ==
    IF k > Len(sents) THEN st
    ELSE LET sentence == sents[k]
             nxt ==
               IF Len(st.current) + Len(sentence) <= size
               THEN [st EXCEPT !.current =
                        (IF st.current # <<>> THEN st.current \o <<" ">> ELSE <<>>)
                        \o sentence]
               ELSE [chunks  |-> IF st.current # <<>>
                                 THEN Append(st.chunks, st.current)
                                 ELSE st.chunks,
                     current |-> sentence]
         IN  SentenceLoop(sents, k + 1, nxt, size)

\* The body of the paragraph loop for one piece of the split.
ParagraphStep(piece, st, size) ==
    LET para == Strip(piece)
    IN  IF para = <<>> THEN st
        ELSE IF Len(para) > size
        THEN SentenceLoop(Pieces(para, SentenceSeps(para)), 1,
                          [chunks  |-> IF st.current # <<>>
                                       THEN Append(st.chunks, st.current)
                                       ELSE st.chunks,
                           current |-> <<>>],
                          size)
        ELSE IF Len(st.current) + Len(para) + 2 <= size
        THEN [st EXCEPT !.current =
                 (IF st.current # <<>> THEN st.current \o <<"\n", "\n">> ELSE <<>>)
                 \o para]
        ELSE [chunks  |-> IF st.current # <<>>
                          THEN Append(st.chunks, st.current)
                          ELSE st.chunks,
              current |-> para]

\* The paragraph loop over pieces[lo..hi], in order, from state st.  The
\* range is halved and the state after the first half is bound as a value
\* before the second half runs, so that the evaluation stays shallow.
RECURSIVE ParagraphLoop(_, _, _, _, _)
ParagraphLoop(pieces, lo, hi, st, size) ==
    IF lo > hi THEN st
    ELSE IF lo = hi THEN ParagraphStep(pieces[lo], st, size)
    ELSE LET mid == (lo + hi) \div 2
         IN  CHOOSE r \in {ParagraphLoop(pieces, mid + 1, hi, half, size) :
                              half \in {ParagraphLoop(pieces, lo, mid, st, size)}} : TRUE

\* A split that returns without emitting the buffer it is still filling.
SplitByParagraphsNoFlush(content, size) ==
    LET pieces == Pieces(content, ParagraphSeps(content))
        st == ParagraphLoop(pieces, 1, Len(pieces),
                            [chunks |-> <<>>, current |-> <<>>], size)
    IN  st.chunks

\* RAGService._split_by_paragraphs
SplitByParagraphs(content, size) ==
    LET pieces == Pieces(content, ParagraphSeps(content))
        st == ParagraphLoop(pieces, 1, Len(pieces),
                            [chunks |-> <<>>, current |-> <<>>], size)
    IN  IF st.current # <<>> THEN Append(st.chunks, st.current) ELSE st.chunks

\* A chunker that returns a small text as it came, without stripping it.
ChunkContentNoStrip(content, title, size) ==
    LET c == Strip(content)
    IN  IF c = <<>> THEN <<>>
        ELSE IF Len(c) <= size
        THEN << [text |-> content, index |-> 0, total_chunks |-> 1] >>
        ELSE LET raw == SplitByParagraphs(c, size)
             IN  [i \in 1..Len(raw) |->
                    [text |-> IF i = 1 /\ title # <<>>
                              THEN title \o <<"\n", "\n">> \o Strip(raw[i])
                              ELSE Strip(raw[i]),
                     index |-> i - 1,
                     total_chunks |-> Len(raw)]]

\* A chunker without the test for an empty text.
ChunkContentNoEmptyCheck(content, title, size) ==
    LET c == Strip(content)
    IN  IF Len(c) <= size
        THEN << [text |-> c, index |-> 0, total_chunks |-> 1] >>
        ELSE LET raw == SplitByParagraphs(c, size)
             IN  [i \in 1..Len(raw) |->
                    [text |-> IF i = 1 /\ title # <<>>
                              THEN title \o <<"\n", "\n">> \o Strip(raw[i])
                              ELSE Strip(raw[i]),
                     index |-> i - 1,
                     total_chunks |-> Len(raw)]]

\* A chunker that numbers its chunks from 1.
ChunkContentOneBased(content, title, size) ==
    LET c == Strip(content)
    IN  IF c = <<>> THEN <<>>
        ELSE IF Len(c) <= size
        THEN << [text |-> c, index |-> 0, total_chunks |-> 1] >>
        ELSE LET raw == SplitByParagraphs(c, size)
             IN  [i \in 1..Len(raw) |->
                    [text |-> IF i = 1 /\ title # <<>>
                              THEN title \o <<"\n", "\n">> \o Strip(raw[i])
                              ELSE Strip(raw[i]),
                     index |-> i,
                     total_chunks |-> Len(raw)]]

\* RAGService._chunk_content: the chunk list [text, index, total_chunks].
ChunkContent(content, title, size) ==
    LET c == Strip(content)
    IN  IF c = <<>> THEN <<>>
        ELSE IF Len(c) <= size
        THEN << [text |-> c, index |-> 0, total_chunks |-> 1] >>
        ELSE LET raw == SplitByParagraphs(c, size)
             IN  [i \in 1..Len(raw) |->
                    [text |-> IF i = 1 /\ title # <<>>
                              THEN title \o <<"\n", "\n">> \o Strip(raw[i])
                              ELSE Strip(raw[i]),
                     index |-> i - 1,
                     total_chunks |-> Len(raw)]]

\* ------------------------------------------------------------------------
\* Inputs of the model
\* ------------------------------------------------------------------------

\* for i in range(0, len(vectors), 100): the page size of the paged upsert.
UpsertPageSize == 100

\* ChunkConfig.chunk_size as configured for the model (RAGService takes it
\* from its chunk_config argument); the texts below are sized against it.
ChunkSize == 2

\* Operations one caller starts in a run.
MaxOps == 3

\* A text of n one-letter paragraphs separated by blank lines.
ParagraphText(n) == [i \in 1..(3 * n - 2) |-> IF i % 3 = 1 THEN "a" ELSE "\n"]

TextBlank == <<" ", "\n">>
TextOne   == <<" ", "a", " ">>
TextBig  == ParagraphText(UpsertPageSize + 1)
TextMany == <<"a", ".", " ", "b", ".", " ", "c", "\n", "\n", "d">>

MetaPlain   == [title |-> <<"T">>, category |-> <<"c">>]
\* Caller metadata that names the keys the indexer sets itself.
MetaClash   == [title |-> <<>>, parent_id |-> "kb_2", chunk_index |-> 7,
                total_chunks |-> 9, content |-> <<"z">>]

\* ------------------------------------------------------------------------
\* Vector store provider (Pinecone index): upsert, delete, query
\* ------------------------------------------------------------------------

EmptyStore == [i \in {} |-> 0]

\* {**a, **b}: b's keys override a's.
DictMerge(a, b) ==
    [k \in DOMAIN a \cup DOMAIN b |-> IF k \in DOMAIN b THEN b[k] ELSE a[k]]

\* dict.get(key, default)
DictGet(m, key, default) == IF key \in DOMAIN m THEN m[key] ELSE default

\* The store with the records of `ids` replaced by `rec[id]`.
Replace(st, ids, rec) ==
    [i \in DOMAIN st \cup ids |-> IF i \in ids THEN rec[i] ELSE st[i]]

\* index.upsert(vectors=vs): a record of the same id is replaced entirely
\* (of two vectors of one id in a call, the later one stays).
Upsert(st, vs) ==
    Replace(st, {vs[k].id : k \in 1..Len(vs)},
            [i \in {vs[k].id : k \in 1..Len(vs)} |->
                LET k == CHOOSE k \in 1..Len(vs) :
                            vs[k].id = i /\ \A j \in (k + 1)..Len(vs) : vs[j].id # i
                IN  [values |-> vs[k].values, metadata |-> vs[k].metadata]])

\* A filter delete that removes one matching record only (the last one).
DeleteByFilterOne(st, key, val) ==
    LET hit == {j \in DOMAIN st :
                  key \in DOMAIN st[j].metadata /\ st[j].metadata[key] = val}
        top == {j \in hit : \A k \in hit :
                  st[k].metadata.chunk_index <= st[j].metadata.chunk_index}
    IN  [i \in DOMAIN st \ top |-> st[i]]

\* index.delete(filter={key: {"$eq": val}})
DeleteByFilter(st, key, val) ==
    [i \in {j \in DOMAIN st :
              ~(key \in DOMAIN st[j].metadata /\ st[j].metadata[key] = val)}
       |-> st[i]]

\* index.delete(ids=ids): an id that is not stored is a no-op.
DeleteByIds(st, ids) == [i \in DOMAIN st \ ids |-> st[i]]

\* The embedding provider's vector for a text: opaque, one per text.
Embedding(text) == <<"vec", text>>

\* The similarity of a query to a stored vector, in units of 0.0001: `sim`
\* stands for the query's embedding, [of: vector -> score, other: score].
Score(sim, values) == IF values \in DOMAIN sim.of THEN sim.of[values] ELSE sim.other

\* The ids that pass filter_metadata (None, or an equality on one key).
Candidates(st, filter) ==
    {i \in DOMAIN st :
        \/ filter.key = "none"
        \/ /\ filter.key \in DOMAIN st[i].metadata
           /\ st[i].metadata[filter.key] = filter.val}

\* The k best of `cand` by descending score appended to acc; equal scores
\* fall in an arbitrary but fixed order.
RECURSIVE Ranked(_, _, _, _, _)
Ranked(st, sim, cand, k, acc) ==
    LET left == {i \in cand : \A n \in 1..Len(acc) : acc[n] # i}
    IN  IF k = 0 \/ left = {} THEN acc
        ELSE Ranked(st, sim, cand, k - 1,
                    Append(acc, CHOOSE i \in left : \A j \in left :
                                   Score(sim, st[i].values) >= Score(sim, st[j].values)))

\* index.query(vector, top_k, include_metadata=True, filter): the matches.
Query(st, sim, top_k, filter) ==
    LET ids == Ranked(st, sim, Candidates(st, filter), top_k, <<>>)
    IN  [n \in 1..Len(ids) |->
           [id |-> ids[n], score |-> Score(sim, st[ids[n]].values),
            metadata |-> st[ids[n]].metadata]]

\* ------------------------------------------------------------------------
\* Context retriever (RAGService.retrieve_context, _format_context)
\* ------------------------------------------------------------------------

\* A score filter that drops a match whose score equals the threshold.
AboveThresholdStrict(score, threshold) == score > threshold

\* if m.score >= score_threshold
AboveThreshold(score, threshold) == score >= threshold

\* The RetrievalResult list: the matches that pass the threshold, in order.
KeptMatches(matches, threshold) ==
    LET keep(m) == AboveThreshold(m.score, threshold)
        kept    == SelectSeq(matches, keep)
    IN  [n \in 1..Len(kept) |->
           [content  |-> DictGet(kept[n].metadata, "content", <<>>),
            score    |-> kept[n].score,
            metadata |-> kept[n].metadata,
            chunk_id |-> kept[n].id]]

\* _format_context
FormatContext(m) ==
    LET title    == DictGet(m.metadata, "title", <<>>)
        category == DictGet(m.metadata, "category", <<>>)
        header   == IF title # <<>>
                    THEN <<"*", "*">> \o title \o <<"*", "*">>
                         \o (IF category # <<>>
                             THEN <<" ", "(">> \o category \o <<")">> ELSE <<>>)
                         \o <<"\n">>
                    ELSE <<>>
    IN  header \o m.content

\* "\n\n---\n\n".join(parts)
RECURSIVE JoinParts(_, _)
JoinParts(parts, n) ==
    IF n = 0 THEN <<>>
    ELSE IF n = 1 THEN parts[1]
    ELSE JoinParts(parts, n - 1) \o <<"\n", "\n", "-", "-", "-", "\n", "\n">> \o parts[n]

RECURSIVE SumScores(_, _)
SumScores(ms, n) == IF n = 0 THEN 0 ELSE SumScores(ms, n - 1) + ms[n].score

\* round(num / den, 3) for num/den in units of 0.0001, in units of 0.001;
\* on a decimal tie the float may fall either way: `up` picks the side.
Round3(num, den, up) ==
    LET lo == num \div (10 * den)
        r  == num - 10 * den * lo
    IN  IF r > 5 * den \/ (r = 5 * den /\ up) THEN lo + 1 ELSE lo

StrUnknown == <<"U", "n", "k", "n", "o", "w", "n">>

\* ContextResult("", [], 0, 0.0) if include_sources else ""
EmptyContext(include_sources) ==
    IF include_sources
    THEN [kind |-> "bundle", context |-> <<>>, sources |-> <<>>,
          total_matches |-> 0, average_score |-> 0]
    ELSE [kind |-> "text", context |-> <<>>]

\* What retrieve_context returns for the store's matches; ups[n] and upAvg
\* pick the side of the roundings.
ContextOf(matches, threshold, include_sources, ups, upAvg) ==
    LET kept == KeptMatches(matches, threshold)
    IN  IF kept = <<>> THEN EmptyContext(include_sources)
        ELSE LET context == JoinParts([n \in 1..Len(kept) |-> FormatContext(kept[n])],
                                      Len(kept))
                 sources ==
                   [n \in 1..Len(kept) |->
                      [title    |-> DictGet(kept[n].metadata, "title", StrUnknown),
                       category |-> DictGet(kept[n].metadata, "category", <<>>),
                       score    |-> Round3(kept[n].score, 1, ups[n]),
                       chunk_id |-> kept[n].chunk_id]]
             IN  IF include_sources
                 THEN [kind |-> "bundle", context |-> context, sources |-> sources,
                       total_matches |-> Len(kept),
                       average_score |-> Round3(SumScores(kept, Len(kept)), Len(kept), upAvg)]
                 ELSE [kind |-> "text", context |-> context]

\* retrieve_context without its try/except.
RetrieveNoCatch == FALSE

\* try/except of retrieve_context: it encloses the whole body.
RetrieveCatches == TRUE

\* ------------------------------------------------------------------------
\* Content indexer (RAGService.index_content, _index_chunked, _index_single,
\* delete_content, update_content)
\* ------------------------------------------------------------------------

\* f"{content_id}_chunk_{i}"
ChunkId(cid, i) == cid \o "_chunk_" \o ToString(i)

\* Chunk vectors whose metadata lets the caller's keys override the
\* indexer's own.
ChunkVectorsCallerWins(chunks, embeddings, metadata, cid) ==
    [k \in 1..Len(chunks) |->
       [id       |-> ChunkId(cid, k - 1),
        values   |-> embeddings[k],
        metadata |-> DictMerge([content      |-> chunks[k].text,
                                chunk_index  |-> k - 1,
                                total_chunks |-> Len(chunks),
                                parent_id    |-> cid],
                               metadata)]]

\* The vectors _index_chunked prepares from the chunks and their embeddings
\* (zip stops at the shorter list).
ChunkVectors(chunks, embeddings, metadata, cid) ==
    LET n == IF Len(chunks) <= Len(embeddings) THEN Len(chunks) ELSE Len(embeddings)
    IN  [k \in 1..n |->
           [id       |-> ChunkId(cid, k - 1),
            values   |-> embeddings[k],
            metadata |-> DictMerge(metadata,
                            [content      |-> chunks[k].text,
                             chunk_index  |-> k - 1,
                             total_chunks |-> Len(chunks),
                             parent_id    |-> cid])]]

\* The vector _index_single upserts.
SingleVector(content, embedding, metadata, cid) ==
    [id |-> cid, values |-> embedding,
     metadata |-> DictMerge(metadata, [content |-> content])]

\* A page that runs from the offset to the end of the list.
PageToEnd(vectors, offset) == SubSeq(vectors, offset + 1, Len(vectors))

\* vectors[i:i + 100] for the 0-based offset i.
Page(vectors, offset) ==
    SubSeq(vectors, offset + 1,
           IF offset + UpsertPageSize <= Len(vectors)
           THEN offset + UpsertPageSize ELSE Len(vectors))

\* A try/except that encloses the chunked branch only.
IndexContentCatchesChunkedOnly(chunk) == chunk

\* try/except of index_content: both the chunked and the single branch run
\* inside it.
IndexContentCatches(chunk) == TRUE

\* delete_content without its try/except.
DeleteContentNoCatch == FALSE

\* try/except of delete_content: both delete calls run inside it.
DeleteContentCatches == TRUE

\* ------------------------------------------------------------------------
\* Context classifier (core/prompts/context.py)
\* ------------------------------------------------------------------------

Letters ==
    <<"a", "b", "c", "d", "e", "f", "g", "h", "i", "j", "k", "l", "m",
      "n", "o", "p", "q", "r", "s", "t", "u", "v", "w", "x", "y", "z">>

Capitals ==
    <<"A", "B", "C", "D", "E", "F", "G", "H", "I", "J", "K", "L", "M",
      "N", "O", "P", "Q", "R", "S", "T", "U", "V", "W", "X", "Y", "Z">>

\* str.lower() on one character.
LowerChar(c) ==
    IF \E k \in 1..Len(Capitals) : Capitals[k] = c
    THEN Letters[CHOOSE k \in 1..Len(Capitals) : Capitals[k] = c]
    ELSE c

\* str.upper() on one character.
UpperChar(c) ==
    IF \E k \in 1..Len(Letters) : Letters[k] = c
    THEN Capitals[CHOOSE k \in 1..Len(Letters) : Letters[k] = c]
    ELSE c

\* A message taken as it is, without lower().
SameCase(s) == s

\* str.upper()
Upper(s) == [k \in 1..Len(s) |-> UpperChar(s[k])]

\* message.lower()
Lower(s) == [k \in 1..Len(s) |-> LowerChar(s[k])]

\* kw in text
Contains(text, kw) ==
    \E i \in 0..(Len(text) - Len(kw)) : \A k \in 1..Len(kw) : text[i + k] = kw[k]

\* CONTEXT_KEYWORDS[ConversationContext.HAIR_EDUCATION]
KeywordsHairEducation ==
    { <<"h", "a", "i", "r">>, <<"c", "u", "r", "l">>,
      <<"b", "r", "a", "i", "d">>,  <<"s", "t", "y", "l", "e">>,
      <<"t", "e", "x", "t", "u", "r", "e">>,
      <<"m", "o", "i", "s", "t", "u", "r", "e">>,
      <<"p", "r", "o", "t", "e", "i", "n">>,  <<"w", "a", "s", "h">>,
      <<"c", "o", "n", "d", "i", "t", "i", "o", "n">>,
      <<"d", "e", "t", "a", "n", "g", "l", "e">>,
      <<"p", "r", "o", "t", "e", "c", "t", "i", "v", "e">>,
      <<"n", "a", "t", "u", "r", "a", "l">>,
      <<"r", "e", "l", "a", "x", "e", "d">>,
      <<"e", "x", "t", "e", "n", "s", "i", "o", "n">>,  <<"w", "i", "g">>,
      <<"l", "o", "c">>,  <<"t", "w", "i", "s", "t">>, <<"c", "o", "i", "l">>,
      <<"s", "t", "r", "a", "n", "d">>,  <<"s", "c", "a", "l", "p">>,
      <<"g", "r", "o", "w", "t", "h">> }

\* CONTEXT_KEYWORDS[ConversationContext.BUSINESS_MENTORSHIP]
KeywordsBusinessMentorship ==
    { <<"b", "u", "s", "i", "n", "e", "s", "s">>,
      <<"c", "l", "i", "e", "n", "t">>,  <<"p", "r", "i", "c", "e">>,
      <<"p", "r", "i", "c", "i", "n", "g">>,
      <<"m", "a", "r", "k", "e", "t", "i", "n", "g">>,
      <<"s", "o", "c", "i", "a", "l", " ", "m", "e", "d", "i", "a">>,
      <<"i", "n", "s", "t", "a", "g", "r", "a", "m">>,
      <<"b", "o", "o", "k", "i", "n", "g">>,  <<"s", "a", "l", "o", "n">>,
      <<"b", "r", "a", "n", "d">>,  <<"m", "o", "n", "e", "y">>,
      <<"i", "n", "c", "o", "m", "e">>,  <<"p", "r", "o", "f", "i", "t">>,
      <<"c", "u", "s", "t", "o", "m", "e", "r">>,
      <<"s", "e", "r", "v", "i", "c", "e">>,
      <<"c", "h", "a", "r", "g", "e">>,  <<"s", "t", "a", "r", "t">>,
      <<"g", "r", "o", "w">>,  <<"s", "c", "a", "l", "e">>,
      <<"i", "n", "v", "e", "s", "t">> }

\* CONTEXT_KEYWORDS[ConversationContext.PRODUCT_RECOMMENDATION]
KeywordsProductRecommendation ==
    { <<"p", "r", "o", "d", "u", "c", "t">>,
      <<"r", "e", "c", "o", "m", "m", "e", "n", "d">>,  <<"b", "u", "y">>,
      <<"p", "u", "r", "c", "h", "a", "s", "e">>,
      <<"i", "n", "g", "r", "e", "d", "i", "e", "n", "t">>,
      <<"s", "h", "a", "m", "p", "o", "o">>,
      <<"c", "o", "n", "d", "i", "t", "i", "o", "n", "e", "r">>,
      <<"o", "i", "l">>,  <<"c", "r", "e", "a", "m">>, <<"g", "e", "l">>,
      <<"s", "p", "r", "a", "y">>,  <<"s", "e", "r", "u", "m">>,
      <<"m", "a", "s", "k">>,
      <<"t", "r", "e", "a", "t", "m", "e", "n", "t">> }

\* CONTEXT_KEYWORDS[ConversationContext.TROUBLESHOOTING]
KeywordsTroubleshooting ==
    { <<"p", "r", "o", "b", "l", "e", "m">>, <<"i", "s", "s", "u", "e">>,
      <<"h", "e", "l", "p">>,  <<"w", "r", "o", "n", "g">>,
      <<"d", "a", "m", "a", "g", "e">>,  <<"b", "r", "e", "a", "k">>,
      <<"d", "r", "y">>,  <<"b", "r", "i", "t", "t", "l", "e">>,
      <<"f", "a", "l", "l", "i", "n", "g">>,
      <<"t", "h", "i", "n", "n", "i", "n", "g">>,
      <<"n", "o", "t", " ", "w", "o", "r", "k", "i", "n", "g">>,
      <<"f", "a", "i", "l", "e", "d">>,
      <<"m", "i", "s", "t", "a", "k", "e">>,  <<"f", "i", "x">>,
      <<"r", "e", "p", "a", "i", "r">> }

\* CONTEXT_KEYWORDS
ContextKeywords ==
    [hair_education         |-> KeywordsHairEducation,
     business_mentorship    |-> KeywordsBusinessMentorship,
     product_recommendation |-> KeywordsProductRecommendation,
     troubleshooting        |-> KeywordsTroubleshooting]

\* The tie-breaking order of detect_conversation_context.
Priority ==
    <<"troubleshooting", "product_recommendation", "business_mentorship",
      "hair_education">>

\* scores[context]: the keywords of the context that occur in the text.
KeywordScore(text, context) ==
    Cardinality({kw \in ContextKeywords[context] : Contains(text, kw)})

\* detect_conversation_context(message)
DetectConversationContext(message) ==
    LET message_lower == Lower(message)
        scores == [c \in DOMAIN ContextKeywords |-> KeywordScore(message_lower, c)]
        max_score == CHOOSE m \in {scores[c] : c \in DOMAIN scores} :
                        \A c \in DOMAIN scores : scores[c] <= m
    IN  IF max_score = 0 THEN "general"
        ELSE Priority[CHOOSE k \in 1..Len(Priority) :
                         /\ scores[Priority[k]] = max_score
                         /\ \A j \in 1..(k - 1) : scores[Priority[j]] # max_score]

\* ------------------------------------------------------------------------
\* Prompt composer (core/prompts/generation.py) and the message list
\* (ChatService._build_messages); a prompt is a sequence of text blocks.
\* ------------------------------------------------------------------------

\* Optional values: None, and a value that is present.
None == <<>>

Some(x) == << x >>

\* DEFAULT_PERSONA, by the fields the prompt's opening uses.
DefaultPersona == [name |-> "TayAI", identity |-> "identity"]

\* _get_context_instructions(context_type): the mode section, by its heading.
ContextInstructions(context_type) ==
    CASE context_type = "hair_education"         -> <<"## Hair Education Mode">>
      [] context_type = "business_mentorship"    -> <<"## Business Mentorship Mode">>
      [] context_type = "product_recommendation" -> <<"## Product Recommendation Mode">>
      [] context_type = "troubleshooting"        -> <<"## Troubleshooting Mode">>
      [] OTHER                                   -> <<>>

\* _get_rag_instructions()
RagInstructions == <<"## Using Knowledge Base Context">>

\* persona or DEFAULT_PERSONA
PersonaOr(persona) == IF persona = None THEN DefaultPersona ELSE persona[1]

\* A system prompt that carries the RAG instructions whatever the flag.
GetSystemPromptAlwaysRag(persona, context_type, include_rag_instructions) ==
    <<"# You are ", PersonaOr(persona).name, " - Hair Business Mentor",
      PersonaOr(persona).identity,
      "## Your Role as a Mentor", "## What You Know", "## How You Communicate",
      "## Your Mentoring Approach", "## Knowledge You Must Get Right",
      "## What You Don't Do">>
    \o ContextInstructions(context_type)
    \o RagInstructions
    \o <<"## Remember">>

\* get_system_prompt(persona, context_type, include_rag_instructions); the
\* persona is None or Some(persona).
GetSystemPrompt(persona, context_type, include_rag_instructions) ==
    <<"# You are ", PersonaOr(persona).name, " - Hair Business Mentor",
      PersonaOr(persona).identity,
      "## Your Role as a Mentor", "## What You Know", "## How You Communicate",
      "## Your Mentoring Approach", "## Knowledge You Must Get Right",
      "## What You Don't Do">>
    \o ContextInstructions(context_type)
    \o (IF include_rag_instructions THEN RagInstructions ELSE <<>>)
    \o <<"## Remember">>

\* get_context_injection_prompt(context, query)
GetContextInjectionPrompt(context, query) ==
    IF context = <<>> THEN <<>>
    ELSE <<"## Relevant Information",
           "The following information should inform your response:">>
         \o context
         \o <<"---",
              "Use this information naturally without mentioning the source explicitly.">>

MAX_HISTORY == 10

\* _is_valid_message(msg), for msg a dictionary.
IsValidMessage(msg) ==
    /\ "role" \in DOMAIN msg
    /\ msg.role \in {"user", "assistant", "system"}
    /\ "content" \in DOMAIN msg

\* history[-n:]
LastOf(history, n) ==
    SubSeq(history, IF Len(history) > n THEN Len(history) - n + 1 ELSE 1, Len(history))

\* A message list that carries the context turn even when the context is empty.
BuildMessagesAlwaysContext(user_message, context, history, context_type) ==
    LET recent == SelectSeq(LastOf(history, MAX_HISTORY), IsValidMessage)
    IN  <<[role |-> "system",
           content |-> GetSystemPrompt(None, context_type, TRUE)],
          [role |-> "system",
           content |-> GetContextInjectionPrompt(context, user_message)]>>
        \o [n \in 1..Len(recent) |->
              [role |-> recent[n].role, content |-> recent[n].content]]
        \o <<[role |-> "user", content |-> user_message]>>

\* _build_messages(user_message, context, history, context_type); a history
\* of None is the empty history.
BuildMessages(user_message, context, history, context_type) ==
    LET recent == SelectSeq(LastOf(history, MAX_HISTORY), IsValidMessage)
    IN  <<[role |-> "system",
           content |-> GetSystemPrompt(None, context_type, TRUE)]>>
        \o (IF context # <<>>
            THEN <<[role |-> "system",
                    content |-> GetContextInjectionPrompt(context, user_message)]>>
            ELSE <<>>)
        \o [n \in 1..Len(recent) |->
              [role |-> recent[n].role, content |-> recent[n].content]]
        \o <<[role |-> "user", content |-> user_message]>>

\* FALLBACK_RESPONSES["error_graceful"]
FallbackErrorGraceful ==
    <<"Okay, something went sideways on my end! Can you try asking that again? I want to make sure I give you a solid answer.">>

VARIABLES
    store,   \* the vector store: record id -> [values, metadata]
    proc,    \* per request slot: the running operation, its locals and result
    pre,     \* per request slot: the store when its current operation began
    prev,    \* per request slot: the operation it completed before this one
    started, \* per request slot: the number of operations it has started
    db,      \* the database: the knowledge_base rows by id and the next id,
             \* the chat_messages rows in the order of their ids, the
             \* usage_tracking rows in the order of their ids, and the tier
             \* of each user
    redis    \* the usage cache: the string held under each cache key

vars == <<store, proc, pre, prev, started, db, redis>>

Procs == {1, 2}

NoResult == [kind |-> "none"]

NoFilter == [key |-> "none", val |-> ""]

NoQuery ==
    [sim |-> [of |-> <<>>, other |-> 0], top_k |-> 0, threshold |-> 0,
     filter |-> NoFilter, include_sources |-> FALSE]

IdleProc ==
    [op |-> "none", pc |-> "done", cid |-> "", content |-> <<>>,
     metadata |-> MetaPlain, chunk |-> TRUE,
     chunks |-> <<>>, vectors |-> <<>>, chunk_ids |-> <<>>, offset |-> 0,
     query |-> NoQuery, matches |-> <<>>, visible |-> EmptyStore, at |-> <<>>,
     result |-> NoResult, raised |-> FALSE,
     deleted |-> FALSE, failed |-> FALSE, nEmbed |-> 0, nStore |-> 0,
     item_id |-> 0, items |-> <<>>, pos |-> 0, marked |-> {},
     success_count |-> 0, error_count |-> 0,
     user_id |-> 0, history |-> <<>>, include_sources |-> FALSE,
     context_type |-> "general", context_result |-> NoResult,
     messages |-> <<>>, response |-> NoResult, chat_message |-> NoResult,
     nComplete |-> 0, nDb |-> 0, fault |-> "none", chat_before |-> <<>>,
     title |-> <<>>, chunk_size |-> 0,
     persona |-> None, include_rag_instructions |-> TRUE, pages |-> <<>>,
     texts |-> <<>>,
     tier |-> "", messages_used |-> 0, can_send |-> FALSE, refused |-> FALSE,
     usage |-> None, used_before |-> 0, supplied |-> {}]

\* The ids of the records of content id `cid`: the record of that id and
\* the records whose parent_id is `cid`.
ForId(st, cid) ==
    {i \in DOMAIN st : i = cid \/ DictGet(st[i].metadata, "parent_id", "") = cid}

\* What is kept of a completed operation when the next one starts; `fresh`
\* tells that the store held no record of its content id when it began.
Summary(pr, before) ==
    [op |-> pr.op, cid |-> pr.cid, content |-> pr.content,
     metadata |-> pr.metadata, chunk |-> pr.chunk,
     result |-> IF pr.op \in {"retrieve", "chat"} THEN NoResult ELSE pr.result,
     raised |-> pr.raised, failed |-> pr.failed,
     fresh |-> (ForId(before, pr.cid) = {})]

\* The knowledge_base table before any item was created.
EmptyTable == [rows |-> [i \in {} |-> 0], next |-> 1, chat |-> <<>>, usage |-> <<>>,
               users |-> [i \in {} |-> ""]]

\* The cache before any key was set.
NoKeys == [k \in {} |-> <<>>]

Init ==
    /\ store = EmptyStore
    /\ proc = [p \in Procs |-> IdleProc]
    /\ pre = [p \in Procs |-> EmptyStore]
    /\ prev = [p \in Procs |-> Summary(IdleProc, EmptyStore)]
    /\ started = [p \in Procs |-> 0]
    /\ db = EmptyTable
    /\ redis = NoKeys

\* The operation returns `res` to its caller.
Done(pr, res) == [pr EXCEPT !.pc = "done", !.result = res]

\* An exception leaves the operation.
Raise(pr) == [pr EXCEPT !.pc = "done", !.result = NoResult, !.raised = TRUE]

\* index_content returned (ok, ids) to the operation that called it.
AfterIndex(pr, ok, ids) ==
    CASE pr.op = "index"  -> Done(pr, [kind |-> "index", ok |-> ok, ids |-> ids])
      [] pr.op = "update" -> Done(pr, [kind |-> "update", ok |-> ok])
      [] pr.op = "kb_create" -> [pr EXCEPT !.pc = "kb_pointer"]
      [] pr.op = "kb_update" -> Done(pr, [kind |-> "item", id |-> pr.item_id])
      [] pr.op = "reindex_all" ->
            [pr EXCEPT !.pc = "reindex_next",
                       !.marked = IF ok THEN @ \cup {pr.item_id} ELSE @,
                       !.success_count = IF ok THEN @ + 1 ELSE @,
                       !.error_count = IF ok THEN @ ELSE @ + 1]
      [] OTHER            -> Done(pr, NoResult)

\* A provider call inside index_content raised.
IndexFailed(pr) ==
    LET q == [pr EXCEPT !.failed = TRUE]
    IN  IF IndexContentCatches(pr.chunk) THEN AfterIndex(q, FALSE, <<>>) ELSE Raise(q)

\* index_content that embeds whatever the chunker returned, empty or not.
IndexEnterNoEmptyCheck(pr) ==
    IF pr.chunk
    THEN [pr EXCEPT !.pc = "embed_batch",
                    !.chunks = ChunkContent(pr.content,
                                            DictGet(pr.metadata, "title", <<>>),
                                            ChunkSize)]
    ELSE [pr EXCEPT !.pc = "embed_single"]

\* Control enters index_content(content, metadata, cid, chunk) and runs to
\* its first provider call (or returns when there is nothing to index).
IndexEnter(pr) ==
    IF pr.chunk
    THEN LET chunks == ChunkContent(pr.content, DictGet(pr.metadata, "title", <<>>),
                                    ChunkSize)
         IN  IF chunks = <<>>
             THEN AfterIndex(pr, FALSE, <<>>)
             ELSE [pr EXCEPT !.pc = "embed_batch", !.chunks = chunks]
    ELSE [pr EXCEPT !.pc = "embed_single"]

\* delete_content returned `ok` to the operation that called it.
AfterDelete(pr, ok) ==
    CASE pr.op = "delete" -> Done(pr, [kind |-> "delete", ok |-> ok])
      [] pr.op \in {"update", "kb_update"} ->
            IndexEnter([pr EXCEPT !.chunk = TRUE, !.deleted = ok])
      [] pr.op = "kb_delete" -> [pr EXCEPT !.pc = "kb_remove", !.deleted = ok]
      [] OTHER            -> Done(pr, NoResult)

\* A provider call inside delete_content raised.
DeleteFailed(pr) ==
    LET q == [pr EXCEPT !.failed = TRUE]
    IN  IF DeleteContentCatches THEN AfterDelete(q, FALSE) ELSE Raise(q)

\* A request slot takes up a new operation.
Begin(p, op, content, metadata, cid, chunk) ==
    [IdleProc EXCEPT !.op = op, !.pc = "start", !.content = content,
                     !.metadata = metadata, !.cid = cid, !.chunk = chunk]

\* A request slot takes up a new operation, whose first statements leave
\* the table as `table`.
TakeDb(p, pr, table) ==
    /\ proc[p].pc = "done"
    /\ started[p] < MaxOps
    /\ started' = [started EXCEPT ![p] = @ + 1]
    /\ proc' = [proc EXCEPT ![p] = pr]
    /\ pre' = [pre EXCEPT ![p] = store]
    /\ prev' = [prev EXCEPT ![p] = Summary(proc[p], pre[p])]
    /\ db' = table
    /\ UNCHANGED <<store, redis>>

Take(p, pr) == TakeDb(p, pr, db)

\* A request slot takes up a retrieval; retrievals are not counted, and
\* what a retrieval saw is kept in its `visible`, not in `pre`.
TakeRead(p, pr) ==
    /\ proc[p].pc = "done"
    /\ proc' = [proc EXCEPT ![p] = pr]
    /\ prev' = [prev EXCEPT ![p] = Summary(proc[p], pre[p])]
    /\ UNCHANGED <<store, pre, started, db, redis>>

\* RAGService.retrieve_context(query, top_k, score_threshold,
\* filter_metadata, include_sources)
StartRetrieve(p, q) ==
    TakeRead(p, [IdleProc EXCEPT !.op = "retrieve", !.pc = "ret_embed", !.query = q])

\* RAGService.index_content(content, metadata, content_id, chunk_content)
StartIndex(p, content, metadata, cid, chunk) ==
    Take(p, IndexEnter(Begin(p, "index", content, metadata, cid, chunk)))

\* RAGService.delete_content(content_id)
StartDelete(p, cid) ==
    Take(p, [Begin(p, "delete", <<>>, MetaPlain, cid, TRUE) EXCEPT !.pc = "del_filter"])

\* RAGService.update_content(content, metadata, content_id)
StartUpdate(p, content, metadata, cid) ==
    Take(p, [Begin(p, "update", content, metadata, cid, TRUE) EXCEPT !.pc = "del_filter"])

Step(p, pr) ==
    /\ proc' = [proc EXCEPT ![p] = pr]
    /\ UNCHANGED <<pre, prev, started, db, redis>>

\* _index_chunked with its vectors prepared, before the first upsert.
Prepared(pr, vectors) ==
    [pr EXCEPT !.pc = "upsert", !.vectors = vectors,
               !.chunk_ids = [k \in 1..Len(vectors) |-> vectors[k].id],
               !.offset = 0]

\* _generate_embeddings_batch(texts): one call for all chunk texts.
EmbedBatch(p) ==
    LET pr == proc[p]
        q  == [pr EXCEPT !.nEmbed = @ + 1]
    IN  /\ pr.pc = "embed_batch"
        /\ UNCHANGED store
        /\ \/ Step(p, Prepared(q,
                    ChunkVectors(pr.chunks,
                                 [k \in 1..Len(pr.chunks) |-> Embedding(pr.chunks[k].text)],
                                 pr.metadata, pr.cid)))
           \/ Step(p, IndexFailed(q))

\* One index.upsert(vectors=vectors[i:i + 100]) of the paging loop; `pages`
\* keeps what each call of the loop was handed.
UpsertPage(p) ==
    LET pr == proc[p]
        q  == [pr EXCEPT !.nStore = @ + 1,
                         !.pages = Append(@, Page(pr.vectors, pr.offset))]
    IN  /\ pr.pc = "upsert"
        /\ \/ /\ store' = Upsert(store, Page(pr.vectors, pr.offset))
              /\ IF pr.offset + UpsertPageSize < Len(pr.vectors)
                 THEN Step(p, [q EXCEPT !.offset = @ + UpsertPageSize])
                 ELSE Step(p, AfterIndex(q, TRUE, pr.chunk_ids))
           \/ /\ UNCHANGED store
              /\ Step(p, IndexFailed(q))

\* _generate_embedding(content) of _index_single.
EmbedSingle(p) ==
    LET pr == proc[p]
        q  == [pr EXCEPT !.nEmbed = @ + 1]
    IN  /\ pr.pc = "embed_single"
        /\ UNCHANGED store
        /\ \/ Step(p, [q EXCEPT !.pc = "upsert_single",
                         !.vectors = << SingleVector(pr.content, Embedding(pr.content),
                                                     pr.metadata, pr.cid) >>])
           \/ Step(p, IndexFailed(q))

\* The upsert of _index_single.
UpsertSingle(p) ==
    LET pr == proc[p]
        q  == [pr EXCEPT !.nStore = @ + 1]
    IN  /\ pr.pc = "upsert_single"
        /\ \/ /\ store' = Upsert(store, pr.vectors)
              /\ Step(p, AfterIndex(q, TRUE, << pr.cid >>))
           \/ /\ UNCHANGED store
              /\ Step(p, IndexFailed(q))

\* index.delete(filter={"parent_id": {"$eq": content_id}})
DeleteChunks(p) ==
    LET pr == proc[p]
        q  == [pr EXCEPT !.nStore = @ + 1]
    IN  /\ pr.pc = "del_filter"
        /\ \/ /\ store' = DeleteByFilter(store, "parent_id", pr.cid)
              /\ Step(p, [q EXCEPT !.pc = "del_ids"])
           \/ /\ UNCHANGED store
              /\ Step(p, DeleteFailed(q))

\* index.delete(ids=[content_id])
DeleteMain(p) ==
    LET pr == proc[p]
        q  == [pr EXCEPT !.nStore = @ + 1]
    IN  /\ pr.pc = "del_ids"
        /\ \/ /\ store' = DeleteByIds(store, {pr.cid})
              /\ Step(p, AfterDelete(q, TRUE))
           \/ /\ UNCHANGED store
              /\ Step(p, DeleteFailed(q))

\* A process_message whose handler lets every exception through.
ProcessMessageNoCatch == FALSE

\* except Exception of process_message: every exception is caught.
ProcessMessageCatches == TRUE

\* A statement inside the try of process_message raised.
ChatFailed(pr) ==
    IF ProcessMessageCatches
    THEN Done(pr, [kind |-> "chat", response |-> FallbackErrorGraceful,
                   tokens_used |-> 0, message_id |-> None, sources |-> None])
    ELSE Raise(pr)

\* retrieve_context returned `res` to the operation that called it; in
\* process_message the message list is built next.
AfterRetrieve(pr, res) ==
    IF pr.op = "chat"
    THEN [pr EXCEPT !.pc = "complete", !.context_result = res,
                    !.messages = BuildMessages(pr.content, res.context, pr.history,
                                               pr.context_type)]
    ELSE Done(pr, res)

\* retrieve_context raised into the operation that called it.
RetrieveRaised(pr) == IF pr.op = "chat" THEN ChatFailed(pr) ELSE Raise(pr)

\* A provider call inside retrieve_context raised.
RetrieveFailed(pr) ==
    LET q == [pr EXCEPT !.failed = TRUE]
    IN  IF RetrieveCatches
        THEN AfterRetrieve(q, EmptyContext(pr.query.include_sources))
        ELSE RetrieveRaised(q)

\* A retrieve_context that goes on to the query when the embedding call
\* raised.
RetrieveEmbedNoStop(p) ==
    LET pr == proc[p]
        q  == [pr EXCEPT !.nEmbed = @ + 1]
    IN  /\ pr.pc = "ret_embed"
        /\ UNCHANGED store
        /\ \/ Step(p, [q EXCEPT !.pc = "ret_query"])
           \/ Step(p, [q EXCEPT !.pc = "ret_query", !.failed = TRUE])

\* _generate_embedding(query) of retrieve_context.
RetrieveEmbed(p) ==
    LET pr == proc[p]
        q  == [pr EXCEPT !.nEmbed = @ + 1]
    IN  /\ pr.pc = "ret_embed"
        /\ UNCHANGED store
        /\ \/ Step(p, [q EXCEPT !.pc = "ret_query"])
           \/ Step(p, RetrieveFailed(q))

\* Where request slot w stands: its operation count, label and page offset.
Position(w) == <<started[w], proc[w].pc, proc[w].offset>>

\* retrieve_context from the query's matches to its return value; `at`
\* keeps where the other slots stood when the query ran.
Retrieved(pr, matches, visible, ups, upAvg) ==
    AfterRetrieve([pr EXCEPT !.matches = matches, !.visible = visible,
                             !.at = [w \in Procs |-> Position(w)]],
         ContextOf(matches, pr.query.threshold, pr.query.include_sources, ups, upAvg))

\* index.query(...) of retrieve_context and the rest of the body; `visible`
\* keeps the records the query ran against.
RetrieveQuery(p) ==
    LET pr == proc[p]
        q  == [pr EXCEPT !.nStore = @ + 1]
    IN  /\ pr.pc = "ret_query"
        /\ UNCHANGED store
        /\ \/ \E ups \in [1..pr.query.top_k -> BOOLEAN], upAvg \in BOOLEAN :
                 Step(p, Retrieved(q, Query(store, pr.query.sim, pr.query.top_k,
                                            pr.query.filter),
                                   store, ups, upAvg))
           \/ Step(p, RetrieveFailed(q))

Request(op, content, metadata, cid, chunk) ==
    [op |-> op, content |-> content, metadata |-> metadata, cid |-> cid, chunk |-> chunk]

IndexRequests ==
    { Request("index", TextOne, MetaPlain, "kb_1", TRUE),
      Request("index", TextMany, MetaClash, "kb_1", TRUE),
      Request("index", TextBlank, MetaPlain, "kb_1", TRUE),
      Request("index", TextOne, MetaClash, "kb_1", FALSE) }

UpdateRequests ==
    { Request("update", TextOne, MetaPlain, "kb_1", TRUE),
      Request("update", TextMany, MetaPlain, "kb_1", TRUE),
      Request("update", TextBlank, MetaPlain, "kb_1", TRUE) }

DeleteRequests == { Request("delete", <<>>, MetaPlain, "kb_1", TRUE) }

\* One caller issuing index, delete and update requests one after the other.
Next ==
    \/ \E r \in IndexRequests : StartIndex(1, r.content, r.metadata, r.cid, r.chunk)
    \/ \E r \in DeleteRequests : StartDelete(1, r.cid)
    \/ \E r \in UpdateRequests : StartUpdate(1, r.content, r.metadata, r.cid)
    \/ EmbedBatch(1)
    \/ UpsertPage(1)
    \/ EmbedSingle(1)
    \/ UpsertSingle(1)
    \/ DeleteChunks(1)
    \/ DeleteMain(1)

Spec == Init /\ [][Next]_vars

\* ------------------------------------------------------------------------
\* Retrieval over an indexed store
\* ------------------------------------------------------------------------

\* The store after index_content(content, metadata, cid) ran to its end on
\* an empty store.
StoreOf(content, metadata, cid) ==
    LET chunks == ChunkContent(content, DictGet(metadata, "title", <<>>), ChunkSize)
    IN  Upsert(EmptyStore,
               ChunkVectors(chunks, [k \in 1..Len(chunks) |-> Embedding(chunks[k].text)],
                            metadata, cid))

\* Scores the store may give, in units of 0.0001.
ScoreValues == {9000, 7500, 5000, 3000}

\* The vectors of the chunks of TextMany.
ManyVectors ==
    LET chunks == ChunkContent(TextMany, MetaPlain.title, ChunkSize)
    IN  {Embedding(chunks[k].text) : k \in 1..Len(chunks)}

\* Scorings of the chunks of TextMany: all different, or all the same.
Scorings ==
    {f \in [ManyVectors -> ScoreValues] :
        \/ \A v, w \in ManyVectors : v # w => f[v] # f[w]
        \/ \A v, w \in ManyVectors : f[v] = f[w]}

Queries ==
    [sim : [of : Scorings, other : {3000}],
     top_k : {2, 5},
     threshold : {7000, 7500},
     filter : {NoFilter},
     include_sources : BOOLEAN]

InitRetrieve ==
    /\ store \in {EmptyStore, StoreOf(TextOne, MetaPlain, "kb_1"),
                  StoreOf(TextMany, MetaPlain, "kb_1")}
    /\ proc = [p \in Procs |-> IdleProc]
    /\ pre = [p \in Procs |-> store]
    /\ prev = [p \in Procs |-> Summary(IdleProc, EmptyStore)]
    /\ started = [p \in Procs |-> 0]
    /\ db = EmptyTable
    /\ redis = NoKeys

\* One caller issuing retrievals on an indexed store.
NextRetrieve ==
    \/ \E q \in Queries : StartRetrieve(1, q)
    \/ RetrieveEmbed(1)
    \/ RetrieveQuery(1)

SpecRetrieve == InitRetrieve /\ [][NextRetrieve]_vars

\* ------------------------------------------------------------------------
\* Chat (ChatService.process_message)
\* ------------------------------------------------------------------------

\* ChatService.process_message(user_id, message, conversation_history,
\* include_sources) up to its first provider call; `sim` stands for the
\* embedding the provider will give the message, and `chat_before` keeps
\* the chat_messages rows the request found.
StartChat(p, user_id, message, history, include_sources, sim) ==
    Take(p, [IdleProc EXCEPT
               !.op = "chat", !.pc = "ret_embed", !.content = message,
               !.user_id = user_id, !.history = history,
               !.include_sources = include_sources,
               !.context_type = DetectConversationContext(message),
               !.chat_before = db.chat,
               !.query = [sim |-> sim, top_k |-> 5, threshold |-> 7000,
                          filter |-> NoFilter, include_sources |-> TRUE]])

\* Replies the completion provider may give: [content, total_tokens].
Completions ==
    { [content |-> <<"o", "k">>, total_tokens |-> 12],
      [content |-> FallbackErrorGraceful, total_tokens |-> 30] }

\* chat.completions.create(model, messages, temperature, max_tokens)
ChatComplete(p) ==
    LET pr == proc[p]
        q  == [pr EXCEPT !.nComplete = @ + 1]
    IN  /\ pr.pc = "complete"
        /\ UNCHANGED store
        /\ \/ \E c \in Completions :
                 Step(p, [q EXCEPT !.pc = "chat_commit", !.response = c])
           \/ Step(p, ChatFailed([q EXCEPT !.fault = "completion"]))

\* The ChatMessage row of the reply, with the id the database gives it.
ChatMessage(pr, table) ==
    [id |-> Len(table.chat) + 1, user_id |-> pr.user_id, message |-> pr.content,
     response |-> pr.response.content, tokens_used |-> pr.response.total_tokens]

\* db.add(chat_message); await db.commit()
ChatCommit(p) ==
    LET pr == proc[p]
        q  == [pr EXCEPT !.nDb = @ + 1]
        row == ChatMessage(pr, db)
    IN  /\ pr.pc = "chat_commit"
        /\ UNCHANGED <<store, pre, prev, started, redis>>
        /\ \/ /\ db' = [db EXCEPT !.chat = Append(@, row)]
              /\ proc' = [proc EXCEPT ![p] = [q EXCEPT !.pc = "chat_refresh",
                                                       !.chat_message = row]]
           \/ /\ UNCHANGED db
              /\ proc' = [proc EXCEPT ![p] = ChatFailed([q EXCEPT !.fault = "commit"])]

\* The ChatResponse of a processed message.
ChatResponse(pr) ==
    [kind |-> "chat", response |-> pr.response.content,
     tokens_used |-> pr.response.total_tokens,
     message_id |-> Some(pr.chat_message.id),
     sources |-> IF pr.include_sources /\ pr.context_result.kind = "bundle"
                 THEN Some(pr.context_result.sources) ELSE None]

\* await db.refresh(chat_message) and the rest of process_message.
ChatRefresh(p) ==
    LET pr == proc[p]
        q  == [pr EXCEPT !.nDb = @ + 1]
    IN  /\ pr.pc = "chat_refresh"
        /\ UNCHANGED store
        /\ \/ Step(p, Done(q, ChatResponse(q)))
           \/ Step(p, ChatFailed([q EXCEPT !.fault = "refresh"]))

\* A history entry of the given role.
Turn(role, n) == [role |-> role, content |-> <<"t", ToString(n)>>]

\* A history longer than MAX_HISTORY, with an entry of an unknown role and
\* an entry without content among the last MAX_HISTORY.
LongHistory ==
    [n \in 1..(MAX_HISTORY + 2) |->
       IF n = 5 THEN Turn("tool", n)
       ELSE IF n = 7 THEN [role |-> "user"]
       ELSE Turn(IF n % 2 = 1 THEN "user" ELSE "assistant", n)]

\* Embeddings of a message: close to every chunk of TextMany, or to none.
ChatSims ==
    { [of |-> [v \in ManyVectors |-> 9000], other |-> 3000],
      [of |-> [v \in ManyVectors |-> 3000], other |-> 3000] }

\* The messages the caller sends: [message, history, include_sources, sim].
ChatRequests ==
    { [message |-> <<"H", "i">>, history |-> <<>>,
       include_sources |-> FALSE, sim |-> s] : s \in ChatSims }
    \cup
    { [message |-> <<"H", "e", "l", "p">>, history |-> LongHistory,
       include_sources |-> TRUE, sim |-> s] : s \in ChatSims }
    \cup
    { [message |-> <<"w", "i", "g", " ", "o", "i", "l">>,
       history |-> << Turn("user", 1), Turn("assistant", 2) >>,
       include_sources |-> TRUE, sim |-> s] : s \in ChatSims }

\* Messages the caller sends.
MaxChats == 2

InitChat ==
    /\ store = StoreOf(TextMany, MetaPlain, "kb_1")
    /\ proc = [p \in Procs |-> IdleProc]
    /\ pre = [p \in Procs |-> store]
    /\ prev = [p \in Procs |-> Summary(IdleProc, EmptyStore)]
    /\ started = [p \in Procs |-> 0]
    /\ db = EmptyTable
    /\ redis = NoKeys

\* One caller sending chat messages one after the other.
NextChat ==
    \/ /\ started[1] < MaxChats
       /\ \E r \in ChatRequests :
             StartChat(1, 1, r.message, r.history, r.include_sources, r.sim)
    \/ RetrieveEmbed(1)
    \/ RetrieveQuery(1)
    \/ ChatComplete(1)
    \/ ChatCommit(1)
    \/ ChatRefresh(1)

SpecChat == InitChat /\ [][NextChat]_vars

\* ------------------------------------------------------------------------
\* The chunker on its own: every short text, with and without a title
\* ------------------------------------------------------------------------

\* The longest text chunked.
MaxLen == 5

\* The largest chunk_size configured.
MaxSize == 3

\* The characters of the texts: a letter, a sentence terminator, whitespace.
Alphabet == {"a", ".", " ", "\n"}

\* The texts of length n.
TextsOfLen(n) == [1..n -> Alphabet]

\* The texts chunked.
Texts == UNION {TextsOfLen(n) : n \in 0..MaxLen}

\* The titles passed: none (the default ""), or one.
Titles == {<<>>, <<"T">>}

\* Two callers about to run _chunk_content(content, title) on the same
\* text and title, with the same chunk_config.chunk_size.
InitChunk ==
    /\ store = EmptyStore
    /\ \E content \in Texts, title \in Titles, size \in 1..MaxSize :
          proc = [p \in Procs |->
                    [IdleProc EXCEPT !.op = "chunk", !.pc = "start",
                                     !.content = content, !.title = title,
                                     !.chunk_size = size]]
    /\ pre = [p \in Procs |-> store]
    /\ prev = [p \in Procs |-> Summary(IdleProc, EmptyStore)]
    /\ started = [p \in Procs |-> 0]
    /\ db = EmptyTable
    /\ redis = NoKeys

\* _chunk_content(content, title) runs to its return.
Chunk(p) ==
    LET pr == proc[p]
    IN  /\ pr.op = "chunk"
        /\ pr.pc = "start"
        /\ UNCHANGED store
        /\ Step(p, Done(pr, [kind |-> "chunks",
                             chunks |-> ChunkContent(pr.content, pr.title,
                                                     pr.chunk_size)]))

NextChunk == \E p \in Procs : Chunk(p)

SpecChunk == InitChunk /\ [][NextChunk]_vars

\* ------------------------------------------------------------------------
\* The context classifier on its own: messages of a few words in any case
\* ------------------------------------------------------------------------

\* The most words in a message.
MaxWords == 2

\* The words of the messages, in lower case.
Words ==
    { <<"h", "i">>,
      <<"h", "e", "l", "p">>,
      <<"g", "r", "o", "w", "t", "h">>,
      <<"c", "o", "n", "d", "i", "t", "i", "o", "n", "e", "r">>,
      <<"w", "i", "g">>,
      <<"o", "i", "l">> }

\* A word as written: in lower case, in capitals, or capitalised.
Cased(word, how) ==
    CASE how = "upper" -> Upper(word)
      [] how = "title" -> [k \in 1..Len(word) |->
                             IF k = 1 THEN UpperChar(word[k]) ELSE word[k]]
      [] OTHER         -> word

Tokens == {Cased(w, how) : w \in Words, how \in {"lower", "upper", "title"}}

\* The words of ws[1..n] with a blank between them.
RECURSIVE JoinWords(_, _)
JoinWords(ws, n) ==
    IF n = 0 THEN <<>>
    ELSE IF n = 1 THEN ws[1]
    ELSE JoinWords(ws, n - 1) \o <<" ">> \o ws[n]

\* The messages classified.
Messages ==
    {JoinWords(ws, Len(ws)) : ws \in UNION {[1..n -> Tokens] : n \in 0..MaxWords}}

\* A caller about to run detect_conversation_context(message).
InitClassify ==
    /\ store = EmptyStore
    /\ \E message \in Messages :
          proc = [p \in Procs |->
                    IF p = 1
                    THEN [IdleProc EXCEPT !.op = "classify", !.pc = "start",
                                          !.content = message]
                    ELSE IdleProc]
    /\ pre = [p \in Procs |-> store]
    /\ prev = [p \in Procs |-> Summary(IdleProc, EmptyStore)]
    /\ started = [p \in Procs |-> 0]
    /\ db = EmptyTable
    /\ redis = NoKeys

\* detect_conversation_context(message) runs to its return.
Classify(p) ==
    LET pr == proc[p]
    IN  /\ pr.op = "classify"
        /\ pr.pc = "start"
        /\ UNCHANGED store
        /\ Step(p, Done([pr EXCEPT !.context_type =
                                      DetectConversationContext(pr.content)],
                        [kind |-> "context"]))

NextClassify == Classify(1)

SpecClassify == InitClassify /\ [][NextClassify]_vars

\* ------------------------------------------------------------------------
\* The prompt composer on its own: every topic, with and without a persona
\* ------------------------------------------------------------------------

\* The personas passed: none (the default takes its place), the default
\* itself, and personas of other names and identities.
Personas ==
    {None, Some(DefaultPersona)}
    \cup {Some([name |-> n, identity |-> i]) :
             n \in {"TestAI", "Coach"}, i \in {"identity", "a stylist"}}

\* ConversationContext
Topics == DOMAIN ContextKeywords \cup {"general"}

\* A caller about to run get_system_prompt(persona, context_type,
\* include_rag_instructions).
InitPrompt ==
    /\ store = EmptyStore
    /\ \E persona \in Personas, topic \in Topics, rag \in BOOLEAN :
          proc = [p \in Procs |->
                    IF p = 1
                    THEN [IdleProc EXCEPT !.op = "system_prompt", !.pc = "start",
                                          !.persona = persona,
                                          !.context_type = topic,
                                          !.include_rag_instructions = rag]
                    ELSE IdleProc]
    /\ pre = [p \in Procs |-> store]
    /\ prev = [p \in Procs |-> Summary(IdleProc, EmptyStore)]
    /\ started = [p \in Procs |-> 0]
    /\ db = EmptyTable
    /\ redis = NoKeys

\* get_system_prompt(persona, context_type, include_rag_instructions) runs
\* to its return.
ComposePrompt(p) ==
    LET pr == proc[p]
    IN  /\ pr.op = "system_prompt"
        /\ pr.pc = "start"
        /\ UNCHANGED store
        /\ Step(p, Done(pr, [kind |-> "prompt",
                             prompt |-> GetSystemPrompt(pr.persona, pr.context_type,
                                                        pr.include_rag_instructions)]))

NextPrompt == ComposePrompt(1)

SpecPrompt == InitPrompt /\ [][NextPrompt]_vars

\* ------------------------------------------------------------------------
\* An update of more chunks than one upsert page holds, with a reader
\* ------------------------------------------------------------------------

\* Operations the writer starts.
PagedWrites == 1

PagedQuery ==
    [sim |-> [of |-> <<>>, other |-> 9000], top_k |-> 5, threshold |-> 7000,
     filter |-> NoFilter, include_sources |-> TRUE]

InitPaged ==
    /\ store = StoreOf(TextOne, MetaPlain, "kb_1")
    /\ proc = [p \in Procs |-> IdleProc]
    /\ pre = [p \in Procs |-> store]
    /\ prev = [p \in Procs |-> Summary(IdleProc, EmptyStore)]
    /\ started = [p \in Procs |-> 0]
    /\ db = EmptyTable
    /\ redis = NoKeys

\* Slot 1 updates the content to the long text while slot 2 retrieves.
NextPaged ==
    \/ /\ started[1] < PagedWrites
       /\ StartUpdate(1, TextBig, MetaPlain, "kb_1")
    \/ DeleteChunks(1)
    \/ DeleteMain(1)
    \/ EmbedBatch(1)
    \/ UpsertPage(1)
    \/ StartRetrieve(2, PagedQuery)
    \/ RetrieveEmbed(2)
    \/ RetrieveQuery(2)

SpecPaged == InitPaged /\ [][NextPaged]_vars

\* ------------------------------------------------------------------------
\* The external calls of indexing, retrieval and chat, one caller
\* ------------------------------------------------------------------------

OrderRequests ==
    { Request("index", TextMany, MetaPlain, "kb_1", TRUE),
      Request("index", TextOne, MetaPlain, "kb_2", FALSE) }

\* One caller indexing content, retrieving and sending chat messages, one
\* request after the other.
NextOrder ==
    \/ \E r \in OrderRequests : StartIndex(1, r.content, r.metadata, r.cid, r.chunk)
    \/ EmbedBatch(1)
    \/ UpsertPage(1)
    \/ EmbedSingle(1)
    \/ UpsertSingle(1)
    \/ StartRetrieve(1, PagedQuery)
    \/ \E r \in ChatRequests :
          /\ r.history = <<>>
          /\ StartChat(1, 1, r.message, r.history, r.include_sources, r.sim)
    \/ RetrieveEmbed(1)
    \/ RetrieveQuery(1)
    \/ ChatComplete(1)
    \/ ChatCommit(1)
    \/ ChatRefresh(1)

SpecOrder == Init /\ [][NextOrder]_vars

\* ------------------------------------------------------------------------
\* Chunked indexing of texts of up to a few pages of chunks
\* ------------------------------------------------------------------------

\* The most chunks a text indexed has.
MaxRecords == 201

\* The chunk counts of the texts: around each multiple of the page size.
RecordCounts ==
    {n \in 1..MaxRecords :
        n % UpsertPageSize <= 3 \/ n % UpsertPageSize = UpsertPageSize - 1}

\* A caller has entered index_content(content, metadata, "kb_1") on an
\* empty store, with a text of many one-letter paragraphs.
InitPages ==
    /\ store = EmptyStore
    /\ \E n \in RecordCounts, metadata \in {MetaPlain, MetaClash} :
          proc = [p \in Procs |->
                    IF p = 1
                    THEN IndexEnter(Begin(p, "index", ParagraphText(n), metadata,
                                          "kb_1", TRUE))
                    ELSE IdleProc]
    /\ pre = [p \in Procs |-> store]
    /\ prev = [p \in Procs |-> Summary(IdleProc, EmptyStore)]
    /\ started = [p \in Procs |-> IF p = 1 THEN 1 ELSE 0]
    /\ db = EmptyTable
    /\ redis = NoKeys

\* The calls of the one index_content.
NextPages ==
    \/ EmbedBatch(1)
    \/ UpsertPage(1)

SpecPages == InitPages /\ [][NextPages]_vars

\* ------------------------------------------------------------------------
\* The gateway operations (RAGService._generate_embedding,
\* _generate_embeddings_batch, search_similar, get_index_stats)
\* ------------------------------------------------------------------------

\* A provider call of a gateway operation that has no handler raised.
GatewayFailed(pr) == Raise([pr EXCEPT !.failed = TRUE])

\* _generate_embedding(text)
StartEmbed(p, text) ==
    TakeRead(p, [IdleProc EXCEPT !.op = "embed", !.pc = "gw_embed", !.content = text])

\* embeddings.create(model, input=text) of _generate_embedding.
GatewayEmbed(p) ==
    LET pr == proc[p]
        q  == [pr EXCEPT !.nEmbed = @ + 1]
    IN  /\ pr.pc = "gw_embed"
        /\ UNCHANGED store
        /\ \/ Step(p, Done(q, [kind |-> "embedding", value |-> Embedding(pr.content)]))
           \/ Step(p, GatewayFailed(q))

\* _generate_embeddings_batch(texts)
StartEmbedBatch(p, texts) ==
    TakeRead(p, [IdleProc EXCEPT !.op = "embed_batch", !.pc = "gw_embed_batch",
                                 !.texts = texts])

\* embeddings.create(model, input=texts) of _generate_embeddings_batch.
GatewayEmbedBatch(p) ==
    LET pr == proc[p]
        q  == [pr EXCEPT !.nEmbed = @ + 1]
    IN  /\ pr.pc = "gw_embed_batch"
        /\ UNCHANGED store
        /\ \/ Step(p, Done(q, [kind |-> "embeddings",
                               values |-> [k \in 1..Len(pr.texts) |->
                                             Embedding(pr.texts[k])]]))
           \/ Step(p, GatewayFailed(q))

\* search_similar(query, top_k, filter_metadata); `sim` stands for the
\* embedding the provider will give the query.
StartSearch(p, sim, top_k, filter) ==
    TakeRead(p, [IdleProc EXCEPT !.op = "search", !.pc = "search_embed",
                                 !.query = [NoQuery EXCEPT !.sim = sim, !.top_k = top_k,
                                                           !.filter = filter]])

\* _generate_embedding(query) of search_similar.
SearchEmbed(p) ==
    LET pr == proc[p]
        q  == [pr EXCEPT !.nEmbed = @ + 1]
    IN  /\ pr.pc = "search_embed"
        /\ UNCHANGED store
        /\ \/ Step(p, [q EXCEPT !.pc = "search_query"])
           \/ Step(p, GatewayFailed(q))

\* index.query(...) of search_similar and its return value.
SearchQuery(p) ==
    LET pr == proc[p]
        q  == [pr EXCEPT !.nStore = @ + 1]
    IN  /\ pr.pc = "search_query"
        /\ UNCHANGED store
        /\ \/ Step(p, Done(q, [kind |-> "matches",
                               matches |-> Query(store, pr.query.sim, pr.query.top_k,
                                                 pr.query.filter)]))
           \/ Step(p, GatewayFailed(q))

\* except Exception of get_index_stats: every exception is caught.
GetIndexStatsCatches == TRUE

\* get_index_stats()
StartStats(p) ==
    TakeRead(p, [IdleProc EXCEPT !.op = "stats", !.pc = "stats"])

\* describe_index_stats() of get_index_stats and its return value: the
\* statistics, or the empty dictionary when the call raised.
IndexStats(p) ==
    LET pr == proc[p]
        q  == [pr EXCEPT !.nStore = @ + 1]
    IN  /\ pr.pc = "stats"
        /\ UNCHANGED store
        /\ \/ Step(p, Done(q, [kind |-> "stats",
                               stats |-> [total_vectors |-> Cardinality(DOMAIN store)]]))
           \/ Step(p, IF GetIndexStatsCatches
                      THEN Done([q EXCEPT !.failed = TRUE],
                                [kind |-> "stats", stats |-> [k \in {} |-> 0]])
                      ELSE GatewayFailed(q))

\* The texts embedded.
GatewayTexts == {TextOne, TextMany, <<"a">>}

\* The searches made.
Searches ==
    [sim : ChatSims, top_k : {2, 10}, filter : {NoFilter}]

\* One caller using the gateway operations on an indexed store.
NextGateway ==
    \/ \E text \in GatewayTexts : StartEmbed(1, text)
    \/ GatewayEmbed(1)
    \/ \E texts \in {<<>>, << TextOne >>, << TextOne, TextMany >>} :
          StartEmbedBatch(1, texts)
    \/ GatewayEmbedBatch(1)
    \/ \E s \in Searches : StartSearch(1, s.sim, s.top_k, s.filter)
    \/ SearchEmbed(1)
    \/ SearchQuery(1)
    \/ StartStats(1)
    \/ IndexStats(1)

SpecGateway == InitRetrieve /\ [][NextGateway]_vars

\* ------------------------------------------------------------------------
\* Two callers at once, each on a content id of its own
\* ------------------------------------------------------------------------

\* The content id each caller works on: the second caller's may be the id
\* the first caller's first chunk is stored under.
ContentIdsOf(p) == IF p = 1 THEN {"kb_1"} ELSE {"kb_2", "kb_1_chunk_0"}

\* Two callers, each running one index, update or delete on its own
\* content id, their provider calls interleaved.
NextTwo ==
    \E p \in Procs :
        \/ /\ started[p] = 0
           /\ \E cid \in ContentIdsOf(p), content \in {TextOne, TextMany}, chunk \in BOOLEAN :
                 \/ StartIndex(p, content, MetaPlain, cid, chunk)
                 \/ chunk /\ StartUpdate(p, content, MetaPlain, cid)
                 \/ chunk /\ content = TextOne /\ StartDelete(p, cid)
        \/ EmbedBatch(p)
        \/ UpsertPage(p)
        \/ EmbedSingle(p)
        \/ UpsertSingle(p)
        \/ DeleteChunks(p)
        \/ DeleteMain(p)

\* The two callers find a store in which kb_1 and kb_2 are indexed.
InitTwo ==
    /\ store = Upsert(StoreOf(TextMany, MetaPlain, "kb_1"),
                      ChunkVectors(ChunkContent(TextOne, MetaPlain.title, ChunkSize),
                                   << Embedding(ChunkContent(TextOne, MetaPlain.title,
                                                             ChunkSize)[1].text) >>,
                                   MetaPlain, "kb_2"))
    /\ proc = [p \in Procs |-> IdleProc]
    /\ pre = [p \in Procs |-> store]
    /\ prev = [p \in Procs |-> Summary(IdleProc, EmptyStore)]
    /\ started = [p \in Procs |-> 0]
    /\ db = EmptyTable
    /\ redis = NoKeys

SpecTwo == InitTwo /\ [][NextTwo]_vars

\* ------------------------------------------------------------------------
\* UsageService and the send_message endpoint
\* ------------------------------------------------------------------------

\* settings.*_MESSAGES_PER_MONTH, scaled down
BASIC_MEMBER_MESSAGES_PER_MONTH == 2
PREMIUM_MEMBER_MESSAGES_PER_MONTH == 3
VIP_MEMBER_MESSAGES_PER_MONTH == 4

\* UsageService._get_message_limit(tier)
GetMessageLimit(tier) ==
    CASE tier = "basic"   -> BASIC_MEMBER_MESSAGES_PER_MONTH
      [] tier = "premium" -> PREMIUM_MEMBER_MESSAGES_PER_MONTH
      [] tier = "vip"     -> VIP_MEMBER_MESSAGES_PER_MONTH
      [] OTHER            -> BASIC_MEMBER_MESSAGES_PER_MONTH

\* datetime.utcnow(), as the number of its month; period_start and
\* period_end of a month are both written as that number.
Now == 2

\* str(d) of one decimal digit
Digit(d) ==
    CASE d = 0 -> "0" [] d = 1 -> "1" [] d = 2 -> "2" [] d = 3 -> "3"
      [] d = 4 -> "4" [] d = 5 -> "5" [] d = 6 -> "6" [] d = 7 -> "7"
      [] d = 8 -> "8" [] OTHER -> "9"

\* The value of one decimal digit
DigitValue(c) == CHOOSE d \in 0..9 : Digit(d) = c

RECURSIVE ToStr(_)
\* The string redis keeps for the integer n
ToStr(n) == IF n < 10 THEN << Digit(n) >> ELSE ToStr(n \div 10) \o << Digit(n % 10) >>

RECURSIVE ToInt(_)
\* int(s) of a string of decimal digits
ToInt(s) ==
    IF s = <<>> THEN 0
    ELSE 10 * ToInt(SubSeq(s, 1, Len(s) - 1)) + DigitValue(s[Len(s)])

\* f"usage:{user_id}:{period_start.strftime('%Y-%m')}"
CacheKey(user_id, period_start) == << "usage", user_id, period_start >>

\* redis_client.get(key): the string under the key, or None
RedisGet(r, key) == IF key \in DOMAIN r THEN Some(r[key]) ELSE None

\* redis_client.setex(key, 3600, value)
RedisSetex(r, key, value) ==
    [k \in DOMAIN r \cup {key} |-> IF k = key THEN ToStr(value) ELSE r[k]]

\* redis_client.incr(key), which counts a missing key from 0
RedisIncr(r, key) ==
    [k \in DOMAIN r \cup {key} |->
        IF k = key THEN ToStr((IF key \in DOMAIN r THEN ToInt(r[key]) ELSE 0) + 1)
        ELSE r[k]]

RECURSIVE SumCounts(_)
\* func.sum(UsageTracking.messages_count) over the selected rows
SumCounts(rows) ==
    IF rows = <<>> THEN 0 ELSE rows[1].messages_count + SumCounts(Tail(rows))

\* The usage_tracking rows check_usage_limit sums: those of the user that
\* lie within the current period.
PeriodRows(table, user_id) ==
    SelectSeq(table.usage,
              LAMBDA row : /\ row.user_id = user_id
                           /\ row.period_start >= Now
                           /\ row.period_end <= Now)

\* result.scalar() or 0
MessagesStored(table, user_id) == SumCounts(PeriodRows(table, user_id))

\* The positions of the rows record_usage selects: those of the user whose
\* period_start is the current one.
CurrentRows(table, user_id) ==
    {n \in 1..Len(table.usage) :
        table.usage[n].user_id = user_id /\ table.usage[n].period_start = Now}

\* `messages_used < limit`, without the off-by-one
CanSendInclusive(messages_used, tier) == messages_used <= GetMessageLimit(tier)

\* return messages_used < limit
CanSend(messages_used, tier) == messages_used < GetMessageLimit(tier)

\* check_usage_limit returned to send_message, which raises HTTP 429 when
\* the user cannot send.
Checked(pr, messages_used) ==
    LET q == [pr EXCEPT !.messages_used = messages_used,
                        !.can_send = CanSend(messages_used, pr.tier)]
    IN  IF q.can_send THEN [q EXCEPT !.pc = "process"]
        ELSE [Raise(q) EXCEPT !.refused = TRUE]

\* Requests sent to the endpoint.
MaxSends == 3

Sent == started[1] + started[2]

\* send_message up to the end of check_usage_limit's cache lookup
SendMessage(p, user_id) ==
    LET key    == CacheKey(user_id, Now)
        cached == RedisGet(redis, key)
        pr     == [IdleProc EXCEPT !.op = "send", !.user_id = user_id,
                                   !.tier = db.users[user_id],
                                   !.chat_before = db.chat,
                                   !.used_before = MessagesStored(db, user_id)]
    IN  /\ proc[p].pc = "done"
        /\ Sent < MaxSends
        /\ started' = [started EXCEPT ![p] = @ + 1]
        /\ proc' = [proc EXCEPT ![p] =
                      IF cached # None /\ cached[1] # <<>>
                      THEN Checked(pr, ToInt(cached[1]))
                      ELSE [pr EXCEPT !.pc = "check_query"]]
        /\ UNCHANGED <<store, pre, prev, db, redis>>

\* check_usage_limit: the database query
CheckQuery(p) ==
    LET pr == proc[p]
    IN  /\ pr.pc = "check_query"
        /\ Step(p, [pr EXCEPT !.pc = "check_setex",
                              !.messages_used = MessagesStored(db, pr.user_id)])
        /\ UNCHANGED <<store, redis>>

\* check_usage_limit: the count is cached and compared with the limit
CheckSetex(p) ==
    LET pr == proc[p]
    IN  /\ pr.pc = "check_setex"
        /\ proc' = [proc EXCEPT ![p] = Checked(pr, pr.messages_used)]
        /\ redis' = RedisSetex(redis, CacheKey(pr.user_id, Now), pr.messages_used)
        /\ UNCHANGED <<store, pre, prev, started, db>>

\* response.usage.total_tokens of a completion
TotalTokens == 3

\* ChatService.process_message as send_message sees it: the reply with its
\* tokens and the chat message stored, or the fallback reply with no tokens
\* and nothing stored.
ProcessMessage(p) ==
    LET pr == proc[p]
    IN  /\ pr.pc = "process"
        /\ UNCHANGED <<store, pre, prev, started, redis>>
        /\ \/ /\ db' = [db EXCEPT !.chat =
                          Append(@, [user_id |-> pr.user_id, message |-> <<"m">>,
                                     response |-> <<"r">>, tokens_used |-> TotalTokens])]
              /\ proc' = [proc EXCEPT ![p] =
                            [pr EXCEPT !.pc = "record_select",
                                       !.nComplete = @ + 1, !.nDb = @ + 1,
                                       !.response = [kind |-> "chat",
                                                     tokens_used |-> TotalTokens]]]
           \/ /\ UNCHANGED db
              /\ proc' = [proc EXCEPT ![p] =
                            [pr EXCEPT !.pc = "record_select",
                                       !.nComplete = @ + 1, !.failed = TRUE,
                                       !.response = [kind |-> "chat",
                                                     tokens_used |-> 0]]]

\* record_usage: the select of the user's row of the period;
\* scalar_one_or_none raises when it finds more than one.
RecordSelect(p) ==
    LET pr   == proc[p]
        rows == CurrentRows(db, pr.user_id)
    IN  /\ pr.pc = "record_select"
        /\ UNCHANGED <<store, redis>>
        /\ Step(p, IF Cardinality(rows) > 1 THEN Raise(pr)
                   ELSE IF rows = {} THEN [pr EXCEPT !.pc = "record_commit",
                                                     !.usage = None]
                   ELSE LET n == CHOOSE n \in rows : TRUE
                        IN  [pr EXCEPT !.pc = "record_commit",
                                       !.usage = Some([at |-> n,
                                            messages_count |-> db.usage[n].messages_count + 1,
                                            tokens_used |-> db.usage[n].tokens_used
                                                            + pr.response.tokens_used])])

\* record_usage: the commit writes the row as the session holds it, or
\* inserts the new one.
RecordCommit(p) ==
    LET pr == proc[p]
    IN  /\ pr.pc = "record_commit"
        /\ proc' = [proc EXCEPT ![p] = [pr EXCEPT !.pc = "record_cache"]]
        /\ db' = IF pr.usage # None
                 THEN [db EXCEPT !.usage[pr.usage[1].at] =
                          [@ EXCEPT !.messages_count = pr.usage[1].messages_count,
                                    !.tokens_used = pr.usage[1].tokens_used]]
                 ELSE [db EXCEPT !.usage =
                          Append(@, [user_id |-> pr.user_id, period_start |-> Now,
                                     period_end |-> Now, messages_count |-> 1,
                                     tokens_used |-> pr.response.tokens_used])]
        /\ UNCHANGED <<store, pre, prev, started, redis>>

\* record_usage: the cache is incremented and its expiry renewed; then
\* send_message returns the response.
RecordCache(p) ==
    LET pr == proc[p]
    IN  /\ pr.pc = "record_cache"
        /\ proc' = [proc EXCEPT ![p] = Done(pr, pr.response)]
        /\ redis' = RedisIncr(redis, CacheKey(pr.user_id, Now))
        /\ UNCHANGED <<store, pre, prev, started, db>>

\* A cache key reaches the end of its 3600 seconds.
Expire ==
    /\ \E key \in DOMAIN redis : redis' = [k \in DOMAIN redis \ {key} |-> redis[k]]
    /\ UNCHANGED <<store, proc, pre, prev, started, db>>

Tiers == {"basic", "premium", "vip", "gold"}

\* User 1 of some tier, with a row of an earlier month and, when messages
\* of this month were recorded, the row of this month; no key is cached.
InitUsage ==
    /\ store = EmptyStore
    /\ proc = [p \in Procs |-> IdleProc]
    /\ pre = [p \in Procs |-> EmptyStore]
    /\ prev = [p \in Procs |-> Summary(IdleProc, EmptyStore)]
    /\ started = [p \in Procs |-> 0]
    /\ \E tier \in Tiers : \E used \in 0..GetMessageLimit(tier) :
          db = [EmptyTable EXCEPT
                  !.users = [i \in {1} |-> tier],
                  !.usage = << [user_id |-> 1, period_start |-> Now - 1,
                                period_end |-> Now - 1, messages_count |-> 9,
                                tokens_used |-> 0] >>
                            \o (IF used = 0 THEN <<>>
                                ELSE << [user_id |-> 1, period_start |-> Now,
                                         period_end |-> Now,
                                         messages_count |-> used,
                                         tokens_used |-> 0] >>)]
    /\ redis = NoKeys

\* The requests of user 1, one after the other.
NextUsage ==
    \/ SendMessage(1, 1)
    \/ CheckQuery(1)
    \/ CheckSetex(1)
    \/ ProcessMessage(1)
    \/ RecordSelect(1)
    \/ RecordCommit(1)
    \/ RecordCache(1)
    \/ Expire

SpecUsage == InitUsage /\ [][NextUsage]_vars

\* Two requests of user 1 at the same time, within the life of the cache
\* key.
NextRace ==
    \E p \in Procs :
        \/ started[p] = 0 /\ SendMessage(p, 1)
        \/ CheckQuery(p)
        \/ CheckSetex(p)
        \/ ProcessMessage(p)
        \/ RecordSelect(p)
        \/ RecordCommit(p)
        \/ RecordCache(p)

SpecRace == InitUsage /\ [][NextRace]_vars

\* ------------------------------------------------------------------------
\* KnowledgeService over the table and the vector store
\* ------------------------------------------------------------------------

\* Items the table may hold over a run.
MaxItems == 2

\* content_id = f"kb_{db_item.id}"
ContentId(id) == "kb_" \o ToString(id)

\* The metadata KnowledgeService hands to the indexer for a row.
KbMetadata(row, id) ==
    [title |-> row.title, category |-> row.category, id |-> id,
     source |-> "knowledge_base"]

\* The table with row `id` set to `row`.
PutRow(table, id, row) ==
    [table EXCEPT !.rows = [i \in DOMAIN table.rows \cup {id} |->
                               IF i = id THEN row ELSE table.rows[i]]]

\* The table without row `id`.
DropRow(table, id) ==
    [table EXCEPT !.rows = [i \in DOMAIN table.rows \ {id} |-> table.rows[i]]]

\* KnowledgeService.create_knowledge_item(item): the row is committed with
\* a new id, then the content is indexed under kb_<id>.
KbCreate(p, item) ==
    LET id  == db.next
        row == [title |-> item.title, content |-> item.content,
                category |-> item.category, extra_metadata |-> "",
                is_active |-> TRUE, pinecone_id |-> ""]
    IN  /\ id <= MaxItems
        /\ TakeDb(p,
                  IndexEnter([Begin(p, "kb_create", item.content, KbMetadata(row, id),
                                    ContentId(id), TRUE) EXCEPT !.item_id = id]),
                  [PutRow(db, id, row) EXCEPT !.next = id + 1])

\* create_knowledge_item after index_content returned: the pointer is set
\* whatever the indexing returned, and the item is returned.
KbSetPointer(p) ==
    LET pr == proc[p]
    IN  /\ pr.pc = "kb_pointer"
        /\ pr.item_id \in DOMAIN db.rows
        /\ db' = PutRow(db, pr.item_id,
                        [db.rows[pr.item_id] EXCEPT !.pinecone_id = pr.cid])
        /\ proc' = [proc EXCEPT ![p] = Done(pr, [kind |-> "item", id |-> pr.item_id])]
        /\ UNCHANGED <<store, pre, prev, started, redis>>

\* json.dumps(metadata) of the metadata an update may carry
JsonDumps(metadata) ==
    IF metadata = [tag |-> "x"] THEN "{\"tag\": \"x\"}" ELSE "{}"

\* The row after the fields an update supplies are assigned.
Updated(row, update) ==
    [f \in DOMAIN row |->
        IF f = "extra_metadata" /\ "metadata" \in DOMAIN update
        THEN JsonDumps(update.metadata)
        ELSE IF f \in DOMAIN update THEN update[f] ELSE row[f]]

\* update_knowledge_item that re-indexes on any supplied field.
KbUpdateAlways(p, id, update) ==
    IF id \notin DOMAIN db.rows
    THEN Take(p, Done([Begin(p, "kb_update", <<>>, MetaPlain, "", TRUE)
                         EXCEPT !.supplied = DOMAIN update],
                      [kind |-> "no_item"]))
    ELSE LET row == Updated(db.rows[id], update)
             content_changed == DOMAIN update # {}
             pr  == [Begin(p, "kb_update", row.content, KbMetadata(row, id),
                           row.pinecone_id, TRUE) EXCEPT !.item_id = id,
                                                         !.supplied = DOMAIN update]
         IN  TakeDb(p,
                    IF content_changed /\ row.pinecone_id # ""
                    THEN [pr EXCEPT !.pc = "del_filter"]
                    ELSE Done(pr, [kind |-> "item", id |-> id]),
                    PutRow(db, id, row))

\* KnowledgeService.update_knowledge_item(item_id, update): `update` holds
\* the fields that are not None.
KbUpdate(p, id, update) ==
    IF id \notin DOMAIN db.rows
    THEN Take(p, Done([Begin(p, "kb_update", <<>>, MetaPlain, "", TRUE)
                         EXCEPT !.supplied = DOMAIN update],
                      [kind |-> "no_item"]))
    ELSE LET row == Updated(db.rows[id], update)
             content_changed == DOMAIN update \cap {"title", "content", "category"} # {}
             pr  == [Begin(p, "kb_update", row.content, KbMetadata(row, id),
                           row.pinecone_id, TRUE) EXCEPT !.item_id = id,
                                                         !.supplied = DOMAIN update]
         IN  TakeDb(p,
                    IF content_changed /\ row.pinecone_id # ""
                    THEN [pr EXCEPT !.pc = "del_filter"]
                    ELSE Done(pr, [kind |-> "item", id |-> id]),
                    PutRow(db, id, row))

\* KnowledgeService.delete_knowledge_item(item_id) up to its first call.
KbDelete(p, id) ==
    IF id \notin DOMAIN db.rows
    THEN Take(p, Done([Begin(p, "kb_delete", <<>>, MetaPlain, ContentId(id), TRUE)
                         EXCEPT !.item_id = id],
                      [kind |-> "kb_delete", ok |-> FALSE]))
    ELSE LET row == db.rows[id]
             pr  == [Begin(p, "kb_delete", <<>>, MetaPlain, ContentId(id), TRUE)
                       EXCEPT !.item_id = id]
         IN  Take(p, IF row.pinecone_id # ""
                     THEN [pr EXCEPT !.pc = "del_filter", !.cid = row.pinecone_id]
                     ELSE [pr EXCEPT !.pc = "kb_remove"])

\* delete_knowledge_item after delete_content returned (its result is not
\* looked at): the row is deleted and True returned.
KbRemove(p) ==
    LET pr == proc[p]
    IN  /\ pr.pc = "kb_remove"
        /\ db' = DropRow(db, pr.item_id)
        /\ proc' = [proc EXCEPT ![p] = Done(pr, [kind |-> "kb_delete", ok |-> TRUE])]
        /\ UNCHANGED <<store, pre, prev, started, redis>>

\* KnowledgeService.reindex_all(): the active rows are loaded.
ReindexAll(p) ==
    Take(p, [Begin(p, "reindex_all", <<>>, MetaPlain, "", TRUE) EXCEPT
               !.pc = "reindex_next",
               !.items = SortedSeq({i \in DOMAIN db.rows : db.rows[i].is_active})])

\* The loop of reindex_all: the next item is indexed (without a delete
\* before it); after the last one the pointers of the items that succeeded
\* are committed and the counts returned.
ReindexNext(p) ==
    LET pr == proc[p]
    IN  /\ pr.pc = "reindex_next"
        /\ UNCHANGED <<store, pre, prev, started, redis>>
        /\ IF pr.pos < Len(pr.items)
           THEN LET id  == pr.items[pr.pos + 1]
                    row == db.rows[id]
                IN  /\ proc' = [proc EXCEPT ![p] =
                          IndexEnter([pr EXCEPT !.pos = @ + 1, !.item_id = id,
                                                !.content = row.content,
                                                !.metadata = KbMetadata(row, id),
                                                !.cid = ContentId(id),
                                                !.chunk = TRUE])]
                    /\ UNCHANGED db
           ELSE /\ db' = [db EXCEPT !.rows =
                            [i \in DOMAIN db.rows |->
                               IF i \in pr.marked
                               THEN [db.rows[i] EXCEPT !.pinecone_id = ContentId(i)]
                               ELSE db.rows[i]]]
                /\ proc' = [proc EXCEPT ![p] =
                              Done(pr, [kind |-> "reindex",
                                        success_count |-> pr.success_count,
                                        error_count |-> pr.error_count])]

KbItems ==
    { [title |-> <<"T">>, content |-> TextOne, category |-> <<"c">>],
      [title |-> <<>>, content |-> TextMany, category |-> <<>>] }

KbUpdates ==
    { [content |-> TextOne], [content |-> TextBlank], [is_active |-> FALSE] }

\* One administrator creating, updating, deleting and reindexing items.
NextKB ==
    \/ \E item \in KbItems : KbCreate(1, item)
    \/ \E id \in 1..MaxItems, u \in KbUpdates : KbUpdate(1, id, u)
    \/ \E id \in 1..MaxItems : KbDelete(1, id)
    \/ ReindexAll(1)
    \/ KbSetPointer(1)
    \/ KbRemove(1)
    \/ ReindexNext(1)
    \/ EmbedBatch(1)
    \/ UpsertPage(1)
    \/ DeleteChunks(1)
    \/ DeleteMain(1)

SpecKB == Init /\ [][NextKB]_vars

\* Updates of every kind: of the indexed fields, of the metadata, of
\* is_active, and of several at once.
KbUpdatesAll ==
    { [title |-> <<"U">>], [content |-> TextOne], [category |-> <<"d">>],
      [metadata |-> [tag |-> "x"]], [is_active |-> FALSE],
      [metadata |-> [tag |-> "x"], is_active |-> FALSE],
      [title |-> <<"U">>, is_active |-> FALSE] }

\* One administrator creating items and updating them.
NextKbUpdate ==
    \/ \E item \in KbItems : KbCreate(1, item)
    \/ \E id \in 1..MaxItems, u \in KbUpdatesAll : KbUpdate(1, id, u)
    \/ KbSetPointer(1)
    \/ EmbedBatch(1)
    \/ UpsertPage(1)
    \/ DeleteChunks(1)
    \/ DeleteMain(1)

SpecKbUpdate == Init /\ [][NextKbUpdate]_vars

\* ------------------------------------------------------------------------
\* Properties of the content indexer
\* ------------------------------------------------------------------------

Range(f) == {f[k] : k \in DOMAIN f}

\* The chunk ids of an n-chunk indexing of cid, in order.
ChunkIds(cid, n) == [k \in 1..n |-> ChunkId(cid, k - 1)]

Finished(pr, op) == pr.op = op /\ pr.pc = "done"

\* C1 (as claimed): when a chunked index or an update of a content id has
\* returned success, every record whose parent_id is that id is one of the
\* chunk records of that indexing: no record outlives or outnumbers the
\* current chunking.
NoRecordOutlivesChunking ==
    \A p \in Procs :
        LET pr == proc[p]
        IN  (/\ pr.pc = "done"
             /\ pr.op \in {"index", "update"}
             /\ pr.chunk
             /\ ~pr.failed
             /\ pr.chunks # <<>>)
            => {i \in DOMAIN store :
                  DictGet(store[i].metadata, "parent_id", "") = pr.cid}
               \subseteq Range(ChunkIds(pr.cid, Len(pr.chunks)))

\* C2: a successful chunked index of N chunks on a store without a record
\* of the id leaves exactly the N records id_chunk_0 .. id_chunk_{N-1}, each
\* with parent_id = id, chunk_index = i and total_chunks = N whatever the
\* caller's metadata holds, and returns those ids in order; a successful
\* delete right after it leaves no record of those ids, of id = id or of
\* parent_id = id.
IndexerConsistency ==
    LET pr == proc[1]
        n  == Len(pr.chunks)
    IN  /\ (/\ Finished(pr, "index")
            /\ pr.chunk
            /\ pr.result.ok
            /\ ForId(pre[1], pr.cid) = {})
           => /\ n > 0
              /\ ForId(store, pr.cid) = Range(ChunkIds(pr.cid, n))
              /\ Cardinality(ForId(store, pr.cid)) = n
              /\ \A k \in 1..n :
                    LET md == store[ChunkId(pr.cid, k - 1)].metadata
                    IN  /\ md.parent_id = pr.cid
                        /\ md.chunk_index = k - 1
                        /\ md.total_chunks = n
              /\ pr.result.ids = ChunkIds(pr.cid, n)
        /\ (/\ Finished(pr, "delete")
            /\ pr.result.ok
            /\ prev[1].op = "index"
            /\ prev[1].cid = pr.cid
            /\ prev[1].chunk
            /\ prev[1].result.ok)
           => /\ ForId(store, pr.cid) = {}
              /\ Range(prev[1].result.ids) \cap DOMAIN store = {}

\* C2 witness: a delete has succeeded right after a several-chunk index, made
\* on a store without a record of the id, whose caller metadata named
\* parent_id, chunk_index and total_chunks.
IndexerConsistencyWitness ==
    /\ Finished(proc[1], "delete")
    /\ proc[1].result.ok
    /\ prev[1].op = "index"
    /\ prev[1].chunk
    /\ prev[1].fresh
    /\ prev[1].result.ok
    /\ Len(prev[1].result.ids) > 1
    /\ prev[1].metadata = MetaClash
    /\ pre[1] # EmptyStore

\* C6: of two updates in a row with the same content, metadata and id, all
\* provider calls succeeding, the second leaves the same set of record ids
\* as the first.
UpdateIdempotent ==
    LET pr == proc[1]
    IN  (/\ Finished(pr, "update")
         /\ ~pr.failed
         /\ prev[1].op = "update"
         /\ ~prev[1].failed
         /\ prev[1].cid = pr.cid
         /\ prev[1].content = pr.content
         /\ prev[1].metadata = pr.metadata)
        => DOMAIN store = DOMAIN pre[1]

\* C6 witness: the second of two equal successful updates has finished, and
\* the store holds a record.
UpdateIdempotentWitness ==
    /\ Finished(proc[1], "update")
    /\ ~proc[1].failed
    /\ proc[1].result.ok
    /\ prev[1].op = "update"
    /\ ~prev[1].failed
    /\ prev[1].content = proc[1].content
    /\ prev[1].metadata = proc[1].metadata
    /\ ~prev[1].fresh
    /\ DOMAIN store # {}

\* C7: index never raises, and an index in which an embedding or
\* vector-store call raised returns (false, []), chunked or not.
IndexCatchesProviderErrors ==
    \A p \in Procs :
        LET pr == proc[p]
        IN  Finished(pr, "index")
            => /\ ~pr.raised
               /\ pr.failed => pr.result = [kind |-> "index", ok |-> FALSE, ids |-> <<>>]

\* C7 witness: an unchunked index whose upsert raised has finished.
IndexCatchesWitness ==
    /\ Finished(proc[1], "index")
    /\ ~proc[1].chunk
    /\ proc[1].failed
    /\ proc[1].nStore = 1

\* C8: a chunked index whose content chunks to nothing returns (false, [])
\* at once, with no embedding call, no vector-store call and the store as
\* it was.
EmptyContentNotIndexed ==
    \A p \in Procs :
        LET pr == proc[p]
        IN  (/\ pr.op = "index"
             /\ pr.chunk
             /\ ChunkContent(pr.content, DictGet(pr.metadata, "title", <<>>),
                             ChunkSize) = <<>>)
            => /\ pr.pc = "done"
               /\ pr.result = [kind |-> "index", ok |-> FALSE, ids |-> <<>>]
               /\ pr.nEmbed = 0
               /\ pr.nStore = 0
               /\ store = pre[p]

\* C8 witness: a chunked index of whitespace-only content has returned while
\* the store holds records.
EmptyContentWitness ==
    /\ Finished(proc[1], "index")
    /\ proc[1].chunk
    /\ proc[1].content = TextBlank
    /\ DOMAIN store # {}

\* C9 (as claimed): every delete returns success, and a delete that follows
\* a delete of the same id leaves the store as it was.
DeleteAlwaysSucceeds ==
    LET pr == proc[1]
    IN  /\ Finished(pr, "delete") => pr.result.ok
        /\ (Finished(pr, "delete") /\ prev[1].op = "delete" /\ prev[1].cid = pr.cid)
           => store = pre[1]

\* C9 (amended): delete never raises and returns success exactly when
\* neither of its vector-store calls raised, whether or not a record
\* matched; a delete that follows a successful delete of the same id leaves
\* the store as it was.
DeleteSucceedsUnlessProviderFails ==
    LET pr == proc[1]
    IN  /\ Finished(pr, "delete")
           => /\ ~pr.raised
              /\ pr.result.ok <=> ~pr.failed
        /\ (/\ Finished(pr, "delete")
            /\ prev[1].op = "delete"
            /\ prev[1].cid = pr.cid
            /\ prev[1].result.ok)
           => store = pre[1]

\* C9 witness: a delete that matched nothing, right after a successful
\* delete that removed records, has returned success.
DeleteIdempotentWitness ==
    /\ Finished(proc[1], "delete")
    /\ proc[1].result.ok
    /\ prev[1].op = "delete"
    /\ prev[1].result.ok
    /\ ~prev[1].fresh
    /\ ForId(pre[1], proc[1].cid) = {}
\* The records of content id `cid` in a store.
RecordsOf(st, cid) == [i \in ForId(st, cid) |-> st[i]]

\* C4 (as claimed): a retrieval whose query runs at any point of an update
\* of a content id, no provider call of the update having failed, sees for
\* that id the complete old record set, no record, or (the update having
\* finished) the complete new set.
ReaderSeesWholeSets ==
    LET rd == proc[2]
        wr == proc[1]
    IN  (/\ Finished(rd, "retrieve")
         /\ ~rd.failed
         /\ wr.op = "update"
         /\ ~wr.failed
         /\ rd.at[1] = Position(1))
        => \/ RecordsOf(rd.visible, wr.cid) = RecordsOf(pre[1], wr.cid)
           \/ RecordsOf(rd.visible, wr.cid) = EmptyStore
           \/ /\ wr.pc = "done"
              /\ RecordsOf(rd.visible, wr.cid) = Upsert(EmptyStore, wr.vectors)

\* C5 (as claimed): an update whose deletion succeeded and whose re-indexing
\* failed returns false without raising and leaves no record of the id.
UpdateFailureLeavesUnindexed ==
    LET pr == proc[1]
    IN  (/\ Finished(pr, "update")
         /\ pr.deleted
         /\ ~pr.result.ok)
        => /\ ~pr.raised
           /\ ForId(store, pr.cid) = {}

\* C10: retrieve keeps exactly the matches with score >= score_threshold, in
\* the store's order; the sources list names the kept matches in that
\* order, total_matches is their number and average_score is their mean
\* rounded to 3 decimals.
ThresholdFiltering ==
    LET pr   == proc[1]
        ms   == pr.matches
        keep == {n \in 1..Len(ms) : ms[n].score >= pr.query.threshold}
        idx  == SortedSeq(keep)
        sum  == SumScores([k \in 1..Len(idx) |-> ms[idx[k]]], Len(idx))
        res  == pr.result
    IN  (/\ Finished(pr, "retrieve")
         /\ ~pr.failed
         /\ pr.query.include_sources)
        => /\ res.kind = "bundle"
           /\ res.total_matches = Cardinality(keep)
           /\ Len(res.sources) = Cardinality(keep)
           /\ \A k \in 1..Len(idx) : res.sources[k].chunk_id = ms[idx[k]].id
           /\ LET d == 10 * res.average_score * Len(idx) - sum
              IN  d <= 5 * Len(idx) /\ -d <= 5 * Len(idx)

\* C10 witness: matches scored 0.9, 0.75, 0.5, 0.3 against threshold 0.7:
\* the first two are kept, in that order, with average 0.825.
ThresholdFilteringWitness ==
    LET pr == proc[1]
    IN  /\ Finished(pr, "retrieve")
        /\ pr.query.include_sources
        /\ pr.query.threshold = 7000
        /\ Len(pr.matches) = 4
        /\ [n \in 1..4 |-> pr.matches[n].score] = <<9000, 7500, 5000, 3000>>
        /\ pr.result.total_matches = 2
        /\ pr.result.sources[1].chunk_id = pr.matches[1].id
        /\ pr.result.sources[2].chunk_id = pr.matches[2].id
        /\ pr.result.average_score = 825
\* C3 (as claimed): when delete_knowledge_item has removed the row and
\* returned true, the store holds no record of the item's content id,
\* whatever the vector-store delete calls did.
DeleteItemRemovesRecords ==
    LET pr == proc[1]
    IN  (/\ Finished(pr, "kb_delete")
         /\ pr.result.ok
         /\ pr.item_id \notin DOMAIN db.rows)
        => ForId(store, ContentId(pr.item_id)) = {}

\* C11: retrieve never raises; when no match reaches the threshold, or the
\* embedding call or the vector-store query failed, it returns the empty
\* result: the empty string, or with sources requested the bundle with
\* empty context, no sources, total_matches 0 and average_score 0.
RetrieveNeverRaises ==
    \A p \in Procs :
        LET pr == proc[p]
        IN  Finished(pr, "retrieve")
            => /\ ~pr.raised
               /\ (pr.failed
                   \/ \A n \in 1..Len(pr.matches) : pr.matches[n].score < pr.query.threshold)
                  => pr.result =
                       IF pr.query.include_sources
                       THEN [kind |-> "bundle", context |-> <<>>, sources |-> <<>>,
                             total_matches |-> 0, average_score |-> 0]
                       ELSE [kind |-> "text", context |-> <<>>]

\* C11 witness: a retrieval with sources requested whose vector-store query
\* failed after its embedding call succeeded has returned.
RetrieveNeverRaisesWitness ==
    /\ Finished(proc[1], "retrieve")
    /\ proc[1].failed
    /\ proc[1].nEmbed = 1
    /\ proc[1].nStore = 1
    /\ proc[1].query.include_sources
    /\ DOMAIN store # {}

\* The message list has no context system turn: it is the system prompt,
\* the valid turns of the last MAX_HISTORY of the history, and the message.
NoContextTurn(pr) ==
    LET recent == SelectSeq(LastOf(pr.history, MAX_HISTORY), IsValidMessage)
    IN  /\ Len(pr.messages) = Len(recent) + 2
        /\ pr.messages[1].role = "system"
        /\ pr.messages[1].content = GetSystemPrompt(None, pr.context_type, TRUE)
        /\ \A n \in 1..Len(recent) : pr.messages[n + 1].content = recent[n].content
        /\ pr.messages[Len(pr.messages)] = [role |-> "user", content |-> pr.content]

\* C12: in process_message a failure of the embedding provider or of the
\* vector store during retrieval does not block the answer: the completion
\* provider is still called, with a message list that has no context system
\* turn, and when that call succeeds its reply, not the fallback message,
\* is returned.
RetrievalFailureDoesNotBlock ==
    \A p \in Procs :
        LET pr == proc[p]
        IN  /\ pr.op = "chat" /\ pr.failed /\ pr.pc # "ret_embed" /\ pr.pc # "ret_query"
               => /\ pr.nComplete = 1 \/ pr.pc = "complete"
                  /\ NoContextTurn(pr)
            /\ Finished(pr, "chat") /\ pr.failed /\ pr.fault # "completion"
               => /\ pr.result.response = pr.response.content
                  /\ pr.result.tokens_used = pr.response.total_tokens

\* C13: process_message never raises: when the completion provider fails it
\* returns the fixed graceful-degradation message with tokens_used 0 and no
\* message id, and no chat message is persisted for that request.
ProcessMessageNeverRaises ==
    \A p \in Procs :
        LET pr == proc[p]
        IN  Finished(pr, "chat")
            => /\ ~pr.raised
               /\ pr.fault = "completion"
                  => /\ pr.result.response = FallbackErrorGraceful
                     /\ pr.result.tokens_used = 0
                     /\ pr.result.message_id = None
                     /\ pr.nDb = 0
                     /\ db.chat = pr.chat_before

\* C13 witness: a message whose retrieval found context and whose
\* completion call failed has returned, after an earlier message was stored.
ProcessMessageNeverRaisesWitness ==
    /\ Finished(proc[1], "chat")
    /\ proc[1].fault = "completion"
    /\ proc[1].nComplete = 1
    /\ ~proc[1].failed
    /\ proc[1].context_result.context # <<>>
    /\ Len(db.chat) = 1

\* The units of a text for chunks of at most `size`: its non-empty stripped
\* paragraphs, a paragraph longer than `size` giving its sentences instead.
RECURSIVE Units(_, _, _)
Units(pieces, k, size) ==
    IF k > Len(pieces) THEN <<>>
    ELSE LET para == Strip(pieces[k])
         IN  (IF para = <<>> THEN <<>>
              ELSE IF Len(para) > size THEN Pieces(para, SentenceSeps(para))
              ELSE << para >>)
             \o Units(pieces, k + 1, size)

UnitsOf(content, size) ==
    LET c == Strip(content)
    IN  Units(Pieces(c, ParagraphSeps(c)), 1, size)

\* The chunks a finished _chunk_content returned.
ChunksOf(pr) == pr.result.chunks

\* C14: every chunk returned has text length <= chunk_size, except a chunk
\* that consists of a single unit (one sentence) that is itself longer than
\* chunk_size and stands alone.
ChunkLengthBounded ==
    \A p \in Procs :
        LET pr == proc[p]
        IN  Finished(pr, "chunk")
            => \A i \in 1..Len(ChunksOf(pr)) :
                  LET text == ChunksOf(pr)[i].text
                  IN  \/ Len(text) <= pr.chunk_size
                      \/ \E n \in 1..Len(UnitsOf(pr.content, pr.chunk_size)) :
                            UnitsOf(pr.content, pr.chunk_size)[n] = text

\* The text opens with the injected title: the title and a blank line.
HasTitle(text, title) ==
    /\ title # <<>>
    /\ Len(text) >= Len(title) + 2
    /\ SubSeq(text, 1, Len(title) + 2) = title \o <<"\n", "\n">>

\* C15: the title, if given, is prepended only to the first produced chunk,
\* and only when more than one chunk results: a result of exactly one chunk
\* does not carry the injected title, whatever the text's length, and in a
\* result of several chunks no chunk other than chunk 0 carries it.
TitleOnlyOnFirstOfMany ==
    \A p \in Procs :
        LET pr == proc[p]
        IN  Finished(pr, "chunk")
            => /\ Len(ChunksOf(pr)) = 1 => ~HasTitle(ChunksOf(pr)[1].text, pr.title)
               /\ \A i \in 2..Len(ChunksOf(pr)) : ~HasTitle(ChunksOf(pr)[i].text, pr.title)

\* C16 as stated: for any text with len(text) <= chunk_size the chunker
\* returns exactly one chunk, with index 0 and total 1, whose text equals
\* text.strip().
SmallTextOneChunk ==
    \A p \in Procs :
        LET pr == proc[p]
        IN  Finished(pr, "chunk") /\ Len(pr.content) <= pr.chunk_size
            => ChunksOf(pr) = << [text |-> Strip(pr.content), index |-> 0,
                                  total_chunks |-> 1] >>

\* C16: for any text with len(text) <= chunk_size that is not empty or
\* whitespace only, the chunker returns exactly one chunk, with index 0 and
\* total 1, whose text equals text.strip().
SmallNonBlankTextOneChunk ==
    \A p \in Procs :
        LET pr == proc[p]
        IN  /\ Finished(pr, "chunk")
            /\ Len(pr.content) <= pr.chunk_size
            /\ Strip(pr.content) # <<>>
            => ChunksOf(pr) = << [text |-> Strip(pr.content), index |-> 0,
                                  total_chunks |-> 1] >>

\* C16 witness: a text of chunk_size characters with whitespace on both
\* sides of a letter has been chunked, with a title.
SmallNonBlankTextWitness ==
    /\ Finished(proc[1], "chunk")
    /\ proc[1].content = <<" ", "a", "\n">>
    /\ proc[1].chunk_size = Len(proc[1].content)
    /\ proc[1].title # <<>>
    /\ Len(ChunksOf(proc[1])) = 1

\* C17: the chunker returns an empty sequence for every empty or
\* whitespace-only input, with or without a title, and raises no error.
BlankTextNoChunks ==
    \A p \in Procs :
        LET pr == proc[p]
        IN  /\ Finished(pr, "chunk")
            /\ \A n \in 1..Len(pr.content) : IsSpace(pr.content[n])
            => ~pr.raised /\ ChunksOf(pr) = <<>>

\* C17 witness: a text of blanks and newlines, longer than chunk_size, has
\* been chunked with a title.
BlankTextWitness ==
    /\ Finished(proc[1], "chunk")
    /\ proc[1].content = <<" ", "\n", "\n", " ">>
    /\ proc[1].chunk_size < Len(proc[1].content)
    /\ proc[1].title # <<>>
    /\ ChunksOf(proc[1]) = <<>>

\* Reads `text` from position pos as units[i], units[i + 1], ... separated
\* by whitespace: the index of the first unit not read when the text ends
\* with a unit, and 0 when the text is not made of the units in order.
RECURSIVE Consume(_, _, _, _)
Consume(text, pos, units, i) ==
    IF i > Len(units) THEN 0
    ELSE LET last == pos + Len(units[i]) - 1
         IN  IF last > Len(text) \/ SubSeq(text, pos, last) # units[i] THEN 0
             ELSE IF last = Len(text) THEN i + 1
             ELSE LET rest == {k \in (last + 1)..Len(text) : ~IsSpace(text[k])}
                  IN  IF ~IsSpace(text[last + 1]) \/ rest = {} THEN 0
                      ELSE Consume(text, CHOOSE k \in rest : \A j \in rest : k <= j,
                                   units, i + 1)

\* The chunk's text without the title injected into it.
Body(chunk, title, long) ==
    IF long /\ chunk.index = 0 /\ HasTitle(chunk.text, title)
    THEN SubSeq(chunk.text, Len(title) + 3, Len(chunk.text))
    ELSE chunk.text

\* chunks[k..] are made of units[i..], each unit read once and in order.
RECURSIVE Covers(_, _, _, _, _, _)
Covers(chunks, k, units, i, title, long) ==
    IF k > Len(chunks) THEN i = Len(units) + 1
    ELSE LET n == Consume(Body(chunks[k], title, long), 1, units, i)
         IN  n # 0 /\ Covers(chunks, k + 1, units, n, title, long)

\* C18: no chunk text is dropped: every non-empty paragraph of the input,
\* and for a paragraph longer than chunk_size every sentence of it, appears
\* in exactly one returned chunk, the units appear across the chunks in
\* input order, and the last partially filled buffer is emitted as a chunk.
NoTextDropped ==
    \A p \in Procs :
        LET pr == proc[p]
        IN  Finished(pr, "chunk")
            => Covers(ChunksOf(pr), 1, UnitsOf(pr.content, pr.chunk_size), 1,
                      pr.title, Len(Strip(pr.content)) > pr.chunk_size)

\* C18 witness: a titled text of three sentences has been chunked into
\* two chunks, the first holding two sentences and the last the sentence
\* that was in the buffer when the text ended.
NoTextDroppedWitness ==
    /\ Finished(proc[1], "chunk")
    /\ proc[1].content = <<".", " ", ".", " ", "a">>
    /\ proc[1].chunk_size = 2
    /\ proc[1].title # <<>>
    /\ Len(UnitsOf(proc[1].content, proc[1].chunk_size)) = 3
    /\ Len(ChunksOf(proc[1])) = 2
    /\ ChunksOf(proc[1])[2].text = <<"a">>

Occurring(text, topic) ==
    {kw \in ContextKeywords[topic] :
        \E i \in 1..Len(text) :
           /\ i + Len(kw) - 1 <= Len(text)
           /\ SubSeq(text, i, i + Len(kw) - 1) = kw}

\* C20: the classifier counts, per non-general topic, the keywords that
\* occur as substrings of the case-folded message; it returns general if
\* and only if every count is zero, and otherwise the first topic in the
\* order troubleshooting, product-recommendation, business-mentorship,
\* domain-education whose count equals the maximum count; so the result
\* does not depend on the letter case of the message.
ClassifyByCountAndPriority ==
    \A p \in Procs :
        LET pr    == proc[p]
            order == <<"troubleshooting", "product_recommendation",
                       "business_mentorship", "hair_education">>
            count == [k \in 1..4 |-> Cardinality(Occurring(Lower(pr.content), order[k]))]
        IN  Finished(pr, "classify")
            => /\ pr.context_type = "general" <=> \A k \in 1..4 : count[k] = 0
               /\ pr.context_type # "general"
                  => \E k \in 1..4 :
                        /\ pr.context_type = order[k]
                        /\ \A j \in 1..4 : count[j] <= count[k]
                        /\ \A j \in 1..(k - 1) : count[j] < count[k]
               /\ pr.context_type = DetectConversationContext(Upper(pr.content))
               /\ pr.context_type = DetectConversationContext(Lower(pr.content))

\* C20 witness: a message in mixed case in which domain-education has two
\* keywords and business-mentorship one has been classified as
\* domain-education, past the topic that comes before it in the order.
ClassifyWitness ==
    /\ Finished(proc[1], "classify")
    /\ proc[1].content = <<"W", "I", "G", " ", "G", "r", "o", "w", "t", "h">>
    /\ proc[1].context_type = "hair_education"

\* The message list of a process_message that is past its retrieval.
HasMessages(pr) == pr.op = "chat" /\ pr.pc \notin {"start", "ret_embed", "ret_query"}

\* C21: the message list handed to the completion provider is the system
\* prompt as first entry; then one context system message if and only if
\* the retrieved context is non-empty, never a system turn with empty
\* content, the context injection of an empty context being the empty
\* string; then at most 10 history entries, all taken from the last 10
\* entries of the history and in their original order; then the current
\* user message as last entry.
MessageListShape ==
    \A p \in Procs :
        LET pr      == proc[p]
            ms      == pr.messages
            context == pr.context_result.context
            off     == IF context # <<>> THEN 2 ELSE 1
            h       == Len(ms) - off - 1
            first   == IF Len(pr.history) > 10 THEN Len(pr.history) - 9 ELSE 1
        IN  HasMessages(pr)
            => /\ ms[1] = [role |-> "system",
                           content |-> GetSystemPrompt(None, pr.context_type, TRUE)]
               /\ context # <<>>
                  => /\ ms[2].role = "system"
                     /\ ms[2].content = GetContextInjectionPrompt(context, pr.content)
                     /\ ms[2].content # <<>>
               /\ GetContextInjectionPrompt(<<>>, pr.content) = <<>>
               /\ h \in 0..10
               /\ \E S \in SUBSET (first..Len(pr.history)) :
                     /\ Cardinality(S) = h
                     /\ \A n \in 1..h :
                           LET entry == pr.history[SortedSeq(S)[n]]
                           IN  /\ IsValidMessage(entry)
                               /\ ms[off + n] = [role |-> entry.role,
                                                 content |-> entry.content]
               /\ ms[Len(ms)] = [role |-> "user", content |-> pr.content]

\* C21 witness: a message with context found and a history of 12 entries,
\* two of the last 10 not valid, has had its list built: the system
\* prompt, the context turn, 8 history entries, the message.
MessageListShapeWitness ==
    /\ HasMessages(proc[1])
    /\ proc[1].history = LongHistory
    /\ proc[1].context_result.context # <<>>
    /\ Len(proc[1].messages) = 11
    /\ proc[1].nComplete = 1

\* The blocks of a prompt.
Blocks(prompt) == {prompt[n] : n \in 1..Len(prompt)}

\* C22: the system prompt always contains the persona's name; it contains
\* the mode heading of the given topic if and only if the topic is not
\* general, and never the heading of another topic; and it contains the
\* RAG-usage instruction block if and only if include_rag_instructions is
\* true.
SystemPromptSections ==
    \A p \in Procs :
        LET pr      == proc[p]
            heading == [hair_education         |-> "## Hair Education Mode",
                        business_mentorship    |-> "## Business Mentorship Mode",
                        product_recommendation |-> "## Product Recommendation Mode",
                        troubleshooting        |-> "## Troubleshooting Mode"]
        IN  Finished(pr, "system_prompt")
            => /\ (IF pr.persona = None THEN "TayAI" ELSE pr.persona[1].name)
                     \in Blocks(pr.result.prompt)
               /\ \A t \in DOMAIN heading :
                     heading[t] \in Blocks(pr.result.prompt) <=> t = pr.context_type
               /\ "## Using Knowledge Base Context" \in Blocks(pr.result.prompt)
                     <=> pr.include_rag_instructions

\* C22 witness: the prompt of a persona of another name, for the
\* troubleshooting topic and without RAG instructions, has been composed.
SystemPromptSectionsWitness ==
    /\ Finished(proc[1], "system_prompt")
    /\ proc[1].persona # None
    /\ proc[1].persona[1].name = "TestAI"
    /\ proc[1].context_type = "troubleshooting"
    /\ ~proc[1].include_rag_instructions

\* Slot p issues a vector-store call in this step.
StoreCall(p) == proc'[p].nStore = proc[p].nStore + 1

\* Slot p issues an embedding call in this step.
EmbedCall(p) == proc'[p].nEmbed = proc[p].nEmbed + 1

\* Slot p issues the completion call in this step.
CompletionCall(p) == proc'[p].nComplete = proc[p].nComplete + 1

\* C23: each request makes its external calls in a strict order: in
\* retrieve the vector-store query is issued only after the query's
\* embedding call has returned successfully; in index no upsert is issued
\* before the single, batched embedding call has returned successfully, so
\* a failed embedding writes nothing; in process_message the completion
\* call is issued only after retrieval has finished.
CallsInOrder ==
    [][\A p \in Procs :
          LET pr == proc[p]
          IN  /\ pr.op \in {"retrieve", "chat"} /\ StoreCall(p)
                 => pr.nEmbed = 1 /\ ~pr.failed /\ pr.nStore = 0
              /\ pr.op = "index" /\ StoreCall(p)
                 => pr.nEmbed = 1 /\ ~pr.failed
              /\ pr.op = "index" /\ EmbedCall(p)
                 => /\ pr.nEmbed = 0 /\ pr.nStore = 0 /\ store' = store
                    /\ proc'[p].failed => proc'[p].pc = "done" /\ store' = pre[p]
              /\ CompletionCall(p)
                 => /\ pr.nComplete = 0
                    /\ pr.nEmbed = 1
                    /\ pr.nStore = 1 \/ pr.failed
                    /\ pr.context_result # NoResult
    ]_vars

\* C23 witness: a chat message whose embedding and query calls succeeded
\* has had its completion call, after content was indexed in chunks.
CallsInOrderWitness ==
    /\ Finished(proc[1], "chat")
    /\ proc[1].nEmbed = 1 /\ proc[1].nStore = 1 /\ proc[1].nComplete = 1
    /\ ~proc[1].failed
    /\ prev[1].op = "index" /\ ~prev[1].failed /\ prev[1].chunk

\* The pages one after the other.
RECURSIVE Concat(_, _)
Concat(pages, n) == IF n = 0 THEN <<>> ELSE Concat(pages, n - 1) \o pages[n]

\* C24: for any number N of chunk records, chunked indexing pages the
\* upsert: every physical upsert call carries at most 100 records, there
\* are ceil(N/100) calls, and the pages concatenated in call order equal the
\* full record list, each record being upserted exactly once.
UpsertIsPaged ==
    \A p \in Procs :
        LET pr  == proc[p]
            all == Concat(pr.pages, Len(pr.pages))
        IN  pr.op = "index"
            => /\ \A n \in 1..Len(pr.pages) : Len(pr.pages[n]) \in 1..100
               /\ Len(all) <= Len(pr.vectors)
               /\ all = SubSeq(pr.vectors, 1, Len(all))
               /\ \A i, j \in 1..Len(all) : all[i].id = all[j].id => i = j
               /\ Finished(pr, "index") /\ ~pr.failed /\ pr.chunks # <<>>
                  => /\ all = pr.vectors
                     /\ Len(pr.vectors) = Len(pr.chunks)
                     /\ Len(pr.pages) = (Len(pr.vectors) + 99) \div 100
                     /\ pr.nStore = Len(pr.pages)

\* C24 witness: a text of 201 chunks has been indexed in three upsert
\* calls, the last of one record.
UpsertIsPagedWitness ==
    /\ Finished(proc[1], "index")
    /\ ~proc[1].failed
    /\ Len(proc[1].vectors) = 201
    /\ Len(proc[1].pages) = 3
    /\ Len(proc[1].pages[3]) = 1

\* The gateway operations.
GatewayOps == {"embed", "embed_batch", "search", "stats"}

\* C25: a provider failure inside a gateway operation (embed, embed_batch,
\* the vector-store query of a search, index statistics) is never swallowed
\* by the gateway: it reaches the gateway's caller as an error and is never
\* turned into a normal result value.
GatewayNeverSwallows ==
    \A p \in Procs :
        LET pr == proc[p]
        IN  pr.op \in GatewayOps /\ pr.pc = "done" /\ pr.failed
            => pr.raised /\ pr.result = NoResult

TierLimit(tier) ==
    IF tier = "premium" THEN PREMIUM_MEMBER_MESSAGES_PER_MONTH
    ELSE IF tier = "vip" THEN VIP_MEMBER_MESSAGES_PER_MONTH
    ELSE BASIC_MEMBER_MESSAGES_PER_MONTH

\* C27: send_message refuses a request if and only if the message count
\* check_usage_limit saw for the period is at or above the limit of the
\* user's tier (an unknown tier has the basic limit); a refused request
\* makes no completion call, stores no chat message and records no usage;
\* an accepted request records exactly one message of usage, and only
\* after processing.
SendMessageRefusesAtLimit ==
    \A p \in Procs :
        LET pr     == proc[p]
            stored == MessagesStored(db, pr.user_id)
        IN  pr.op = "send" /\ pr.pc \notin {"check_query", "check_setex"} =>
               /\ pr.refused <=> pr.messages_used >= TierLimit(pr.tier)
               /\ pr.refused =>
                     /\ pr.pc = "done"
                     /\ pr.nComplete = 0
                     /\ db.chat = pr.chat_before
                     /\ stored = pr.used_before
               /\ ~pr.refused /\ pr.pc \in {"process", "record_select", "record_commit"} =>
                     stored = pr.used_before
               /\ ~pr.refused /\ pr.pc \in {"record_cache", "done"} =>
                     /\ pr.nComplete = 1
                     /\ stored = pr.used_before + 1

\* A request is refused after an earlier one was accepted and answered.
SendMessageRefusesWitness ==
    /\ proc[1].op = "send"
    /\ proc[1].refused
    /\ started[1] >= 2
    /\ db.chat # <<>>

\* C28: usage cache coherence: after any sequence of check_usage_limit
\* calls, record_usage calls and cache-key expiries for one user and
\* period, whenever the cache holds a count for that user and period it
\* equals the message count stored in the database.
UsageCacheCoherent ==
    \A user_id \in DOMAIN db.users :
        LET key == CacheKey(user_id, Now)
        IN  (\A p \in Procs : proc[p].pc = "done") /\ key \in DOMAIN redis =>
               ToInt(redis[key]) = MessagesStored(db, user_id)

\* C29: under any interleaving of concurrent send_message requests of one
\* user, the number of messages recorded for that user in the current
\* period never exceeds the limit of the user's tier.
UsageNeverExceedsLimit ==
    \A user_id \in DOMAIN db.users :
        MessagesStored(db, user_id) <= TierLimit(db.users[user_id])

\* C30: update_knowledge_item touches the vector store only when the update
\* supplies a title, content or category and the item has a vector pointer,
\* and then runs one delete-then-re-index for the item's content id; an
\* update that supplies only metadata and/or is_active makes no
\* vector-store call and leaves the item's vector records unchanged.
UpdateTouchesStoreOnlyOnContent ==
    \A p \in Procs :
        LET pr      == proc[p]
            changed == pr.supplied \cap {"title", "content", "category"} # {}
        IN  pr.op = "kb_update" =>
               IF changed /\ pr.cid # ""
               THEN /\ pr.cid = ContentId(pr.item_id)
                    /\ pr.nEmbed <= 1
                    /\ pr.pc = "del_filter" =>
                          pr.nStore = 0 /\ pr.nEmbed = 0 /\ store = pre[p]
                    /\ pr.pc # "del_filter" => pr.nStore >= 1
                    /\ \A i \in DOMAIN pre[p] \ ForId(pre[p], pr.cid) :
                          i \in DOMAIN store /\ store[i] = pre[p][i]
                    /\ \A i \in DOMAIN store \ DOMAIN pre[p] : i \in ForId(store, pr.cid)
               ELSE /\ pr.pc = "done"
                    /\ pr.nStore = 0
                    /\ pr.nEmbed = 0
                    /\ store = pre[p]

\* An update of metadata and is_active only has run on an indexed item.
UpdateMetadataOnlyWitness ==
    /\ proc[1].op = "kb_update"
    /\ proc[1].supplied = {"metadata", "is_active"}
    /\ proc[1].cid # ""
    /\ ForId(store, proc[1].cid) # {}
    /\ ~db.rows[proc[1].item_id].is_active
====
